---- MODULE Spec2Model ----
(***************************************************************************)
(* Model of the math_tools Home Assistant integration:                     *)
(*   custom_components/math_tools/__init__.py   (config-entry profile)     *)
(*   custom_components/math_tools/config_flow.py                           *)
(*   custom_components/math_tools/intent.py                                *)
(*   custom_components/__init__.py              (legacy, env-var profile)  *)
(*                                                                         *)
(* A Python str is a sequence of one-character strings, so that strip,     *)
(* rstrip, lstrip, startswith, split, join and float()/int()/str() are     *)
(* computed character by character as Python computes them.               *)
(***************************************************************************)
EXTENDS Integers, Sequences, FiniteSets, Bags, TLC

\* ------------------------------------------------------------------ bounds
MaxFlows == 2      \* config flows the host may have open at once
MaxSetups == 2     \* setups (first setup and reloads) per run
MaxFrags == 3      \* comma-separated fragments of a generated `values` string
MaxSeqLen == 32    \* longest result sequence the upstream returns
MaxInFlight == 2   \* invocations in flight (suspended in _post) at once

\* ------------------------------------------------------------ Python str
\* A str is a sequence of characters, each a one-character string. A
\* character that TLA+ cannot write is named by its Python escape, as one
\* string: "\f" is the form feed, "\\u2028" the line separator. The
\* characters of the model are the ASCII characters (a control character
\* other than "\t", "\n", "\r" and "\f" is named "\\x00" ... "\\x1f",
\* "\\x7f", and the backquote, which no string here can hold, "\\x60"), the
\* characters str.isspace() holds for, and the two signs of the intent texts.

\* space, \t, \n, \r, \v, \f
AsciiSpace == {" ", "\t", "\n", "\r", "\\x0b", "\f"}

\* the file, group, record and unit separators
SeparatorSpace == {"\\x1c", "\\x1d", "\\x1e", "\\x1f"}

\* the whitespace beyond ASCII
UnicodeSpace ==
    {"\\x85", "\\xa0", "\\u1680", "\\u2000", "\\u2001", "\\u2002", "\\u2003",
     "\\u2004", "\\u2005", "\\u2006", "\\u2007", "\\u2008", "\\u2009",
     "\\u200a", "\\u2028", "\\u2029", "\\u202f", "\\u205f", "\\u3000"}

\* the characters str.strip() removes: those str.isspace() holds for
Whitespace == AsciiSpace \cup SeparatorSpace \cup UnicodeSpace

\* the characters float() and int() ignore around a literal
NumberSpace == AsciiSpace \cup UnicodeSpace

Min(a, b) == IF a <= b THEN a ELSE b

RECURSIVE LStripSet(_, _)
LStripSet(s, cs) ==
    IF s # <<>> /\ Head(s) \in cs THEN LStripSet(Tail(s), cs) ELSE s

RECURSIVE RStripSet(_, _)
RStripSet(s, cs) ==
    IF s # <<>> /\ s[Len(s)] \in cs THEN RStripSet(SubSeq(s, 1, Len(s) - 1), cs) ELSE s

\* str.strip()
Strip(s) == RStripSet(LStripSet(s, Whitespace), Whitespace)

\* str.rstrip("/") and str.lstrip("/")
RStripSlash(s) == RStripSet(s, {"/"})
LStripSlash(s) == LStripSet(s, {"/"})

\* str.startswith(p)
StartsWith(s, p) == Len(s) >= Len(p) /\ SubSeq(s, 1, Len(p)) = p

\* the index of the first c in s at or after i, Len(s) + 1 when there is none
NextSep(s, c, i) ==
    CHOOSE j \in i..(Len(s) + 1) :
        /\ j <= Len(s) => s[j] = c
        /\ \A k \in i..(j - 1) : s[k] # c

\* str.split(c) on a one-character separator: the fragments between the
\* separators; never an empty list. The fragment from i ends before j.
RECURSIVE SplitFrom(_, _, _, _)
SplitFrom(s, c, i, j) ==
    IF j > Len(s) THEN <<SubSeq(s, i, Len(s))>>
    ELSE <<SubSeq(s, i, j - 1)>> \o SplitFrom(s, c, j + 1, NextSep(s, c, j + 1))

SplitOn(s, c) == SplitFrom(s, c, 1, NextSep(s, c, 1))

\* str.split(",")
SplitComma(s) == SplitOn(s, ",")

\* sep.join(parts)
RECURSIVE Join(_, _)
Join(parts, sep) ==
    IF parts = <<>> THEN <<>>
    ELSE IF Len(parts) = 1 THEN parts[1]
    ELSE parts[1] \o sep \o Join(Tail(parts), sep)

\* the characters repr() writes for a character it does not show as itself:
\* the backslash, the ASCII control characters (\x00-\x1f, \x7f) and the
\* whitespace beyond ASCII
EscapeChars ==
    ("\\" :> <<"\\", "\\">>) @@ ("\n" :> <<"\\", "n">>) @@ ("\t" :> <<"\\", "t">>) @@
    ("\r" :> <<"\\", "r">>) @@
    ("\\x00" :> <<"\\", "x", "0", "0">>) @@
    ("\\x01" :> <<"\\", "x", "0", "1">>) @@
    ("\\x02" :> <<"\\", "x", "0", "2">>) @@
    ("\\x03" :> <<"\\", "x", "0", "3">>) @@
    ("\\x04" :> <<"\\", "x", "0", "4">>) @@
    ("\\x05" :> <<"\\", "x", "0", "5">>) @@
    ("\\x06" :> <<"\\", "x", "0", "6">>) @@
    ("\\x07" :> <<"\\", "x", "0", "7">>) @@
    ("\\x08" :> <<"\\", "x", "0", "8">>) @@
    ("\\x0e" :> <<"\\", "x", "0", "e">>) @@
    ("\\x0f" :> <<"\\", "x", "0", "f">>) @@
    ("\\x10" :> <<"\\", "x", "1", "0">>) @@
    ("\\x11" :> <<"\\", "x", "1", "1">>) @@
    ("\\x12" :> <<"\\", "x", "1", "2">>) @@
    ("\\x13" :> <<"\\", "x", "1", "3">>) @@
    ("\\x14" :> <<"\\", "x", "1", "4">>) @@
    ("\\x15" :> <<"\\", "x", "1", "5">>) @@
    ("\\x16" :> <<"\\", "x", "1", "6">>) @@
    ("\\x17" :> <<"\\", "x", "1", "7">>) @@
    ("\\x18" :> <<"\\", "x", "1", "8">>) @@
    ("\\x19" :> <<"\\", "x", "1", "9">>) @@
    ("\\x1a" :> <<"\\", "x", "1", "a">>) @@
    ("\\x1b" :> <<"\\", "x", "1", "b">>) @@
    ("\\x7f" :> <<"\\", "x", "7", "f">>) @@
    ("\\x0b" :> <<"\\", "x", "0", "b">>) @@
    ("\f" :> <<"\\", "x", "0", "c">>) @@
    ("\\x1c" :> <<"\\", "x", "1", "c">>) @@
    ("\\x1d" :> <<"\\", "x", "1", "d">>) @@
    ("\\x1e" :> <<"\\", "x", "1", "e">>) @@
    ("\\x1f" :> <<"\\", "x", "1", "f">>) @@
    ("\\x85" :> <<"\\", "x", "8", "5">>) @@
    ("\\xa0" :> <<"\\", "x", "a", "0">>) @@
    ("\\u1680" :> <<"\\", "u", "1", "6", "8", "0">>) @@
    ("\\u2000" :> <<"\\", "u", "2", "0", "0", "0">>) @@
    ("\\u2001" :> <<"\\", "u", "2", "0", "0", "1">>) @@
    ("\\u2002" :> <<"\\", "u", "2", "0", "0", "2">>) @@
    ("\\u2003" :> <<"\\", "u", "2", "0", "0", "3">>) @@
    ("\\u2004" :> <<"\\", "u", "2", "0", "0", "4">>) @@
    ("\\u2005" :> <<"\\", "u", "2", "0", "0", "5">>) @@
    ("\\u2006" :> <<"\\", "u", "2", "0", "0", "6">>) @@
    ("\\u2007" :> <<"\\", "u", "2", "0", "0", "7">>) @@
    ("\\u2008" :> <<"\\", "u", "2", "0", "0", "8">>) @@
    ("\\u2009" :> <<"\\", "u", "2", "0", "0", "9">>) @@
    ("\\u200a" :> <<"\\", "u", "2", "0", "0", "a">>) @@
    ("\\u2028" :> <<"\\", "u", "2", "0", "2", "8">>) @@
    ("\\u2029" :> <<"\\", "u", "2", "0", "2", "9">>) @@
    ("\\u202f" :> <<"\\", "u", "2", "0", "2", "f">>) @@
    ("\\u205f" :> <<"\\", "u", "2", "0", "5", "f">>) @@
    ("\\u3000" :> <<"\\", "u", "3", "0", "0", "0">>)

\* repr() of the character c inside the quotes q
ReprChar(c, q) ==
    IF c = q THEN <<"\\", c>>
    ELSE IF c \in DOMAIN EscapeChars THEN EscapeChars[c]
    ELSE <<c>>

\* the quotes repr() puts around s: double quotes when s holds a single
\* quote and no double quote
ReprQuote(s) ==
    IF (\E i \in 1..Len(s) : s[i] = "'") /\ ~(\E i \in 1..Len(s) : s[i] = "\"")
    THEN "\"" ELSE "'"

RECURSIVE ReprChars(_, _)
ReprChars(s, q) ==
    IF s = <<>> THEN <<>> ELSE ReprChar(Head(s), q) \o ReprChars(Tail(s), q)

\* repr(s) of a str
ReprStr(s) == <<ReprQuote(s)>> \o ReprChars(s, ReprQuote(s)) \o <<ReprQuote(s)>>

\* --------------------------------------------------------- Python numbers
\* An int is held as itself. A float is held as a decimal: the finite value
\* n * 10^e with n not divisible by 10 (n = 0, e = 0 for zero), or one of the
\* special values of `sp`: "-0" (negative zero), "inf", "-inf", "nan". The
\* decimal is the shortest one of the double, as repr() writes it: a literal
\* of up to nine significant digits is that decimal itself from 1e-314 on,
\* and below it is rounded to the nearest multiple of 2^-1074.
Digits == <<"0", "1", "2", "3", "4", "5", "6", "7", "8", "9">>
DigitSet == {Digits[i] : i \in 1..10}
DigitVal(c) == (CHOOSE i \in 1..10 : Digits[i] = c) - 1

AllDigits(s) == \A i \in 1..Len(s) : s[i] \in DigitSet

RECURSIVE DigitsVal(_)
DigitsVal(s) ==
    IF s = <<>> THEN 0 ELSE DigitsVal(SubSeq(s, 1, Len(s) - 1)) * 10 + DigitVal(s[Len(s)])

RECURSIVE Pow10(_)
Pow10(k) == IF k = 0 THEN 1 ELSE 10 * Pow10(k - 1)

\* k zeros
Zeros(k) == [i \in 1..k |-> "0"]

\* str(n) of an int
RECURSIVE NatToStr(_)
NatToStr(n) == IF n < 10 THEN <<Digits[n + 1]>> ELSE NatToStr(n \div 10) \o <<Digits[(n % 10) + 1]>>

IntToStr(n) == IF n < 0 THEN <<"-">> \o NatToStr(-n) ELSE NatToStr(n)

Abs(n) == IF n < 0 THEN -n ELSE n

Ok(v) == [ok |-> TRUE, v |-> v, err |-> "", what |-> <<>>]
Err(kind, what) == [ok |-> FALSE, v |-> 0, err |-> kind, what |-> what]

\* ---------------------------------------------------------- Python values
\* One record shape for every value: t is the type, n the number (an int as
\* itself, the digits of a float, a bool as 0/1), e and sp the exponent and
\* the special value of a float, s the characters of a str, l the elements
\* of a list or tuple.
PNone == [t |-> "none", n |-> 0, e |-> 0, sp |-> "", s |-> <<>>, l |-> <<>>]
PInt(i) == [t |-> "int", n |-> i, e |-> 0, sp |-> "", s |-> <<>>, l |-> <<>>]
PBool(b) == [t |-> "bool", n |-> IF b THEN 1 ELSE 0, e |-> 0, sp |-> "", s |-> <<>>, l |-> <<>>]
PStr(cs) == [t |-> "str", n |-> 0, e |-> 0, sp |-> "", s |-> cs, l |-> <<>>]
PList(xs) == [t |-> "list", n |-> 0, e |-> 0, sp |-> "", s |-> <<>>, l |-> xs]
PTuple(xs) == [t |-> "tuple", n |-> 0, e |-> 0, sp |-> "", s |-> <<>>, l |-> xs]

\* the float with the digits n, the exponent e and the special value sp
FloatRec(n, e, sp) == [t |-> "float", n |-> n, e |-> e, sp |-> sp, s |-> <<>>, l |-> <<>>]

\* inf, -inf, nan, -0.0
Special(sp) == FloatRec(0, 0, sp)

\* n * 10^e without the trailing zeros of n
RECURSIVE Trimmed(_, _)
Trimmed(n, e) ==
    IF n = 0 THEN FloatRec(0, 0, "")
    ELSE IF n % 10 = 0 THEN Trimmed(n \div 10, e + 1)
    ELSE FloatRec(n, e, "")

\* the number of digits of n > 0
NumDigits(n) == Len(NatToStr(n))

\* n * 10^e, n > 0 without trailing zeros, is beyond the largest double
\* (1.7976931348623157e308)
TooLarge(n, e) ==
    \/ NumDigits(n) + e > 309
    \/ NumDigits(n) + e = 309 /\ n * Pow10(9 - NumDigits(n)) > 179769313

\* n * 10^e, n > 0, is below half of the smallest double (4.9e-324)
TooSmall(n, e) == NumDigits(n) + e < -323

\* n * 10^e, n > 0, is below 1e-314. There the doubles are the multiples
\* k * 2^-1074 with k < 2^31, and a literal is not always the shortest
\* decimal of the double nearest to it; from 1e-314 on it is, for the
\* literals the model holds.
FewDoubles(n, e) == NumDigits(n) + e <= -314

\* the digits of 2^1074, the number of steps of 2^-1074 in 1, the least
\* significant first
Pow2_1074 ==
    <<4, 8, 7, 4, 9, 4, 3, 9, 0, 1, 4, 7, 7, 0, 7, 7, 0, 3, 3, 6, 2, 6, 0, 0, 6, 4, 6, 8, 0, 5, 7, 2, 3, 6, 8, 1,
      2, 3, 5, 2, 0, 5, 0, 3, 2, 5, 1, 6, 4, 1, 4, 3, 3, 3, 2, 5, 5, 9, 6, 7, 8, 5, 3, 2, 1, 5, 6, 5, 0, 0, 1, 8,
      0, 4, 3, 6, 5, 5, 9, 5, 1, 9, 4, 6, 5, 5, 3, 3, 0, 1, 8, 1, 6, 8, 9, 6, 2, 9, 6, 4, 2, 4, 3, 8, 4, 7, 0, 0,
      2, 6, 5, 8, 6, 0, 5, 4, 7, 2, 7, 4, 8, 7, 6, 7, 6, 7, 9, 3, 2, 1, 4, 3, 6, 1, 2, 3, 9, 0, 2, 4, 7, 7, 0, 9,
      6, 6, 4, 4, 6, 3, 1, 6, 3, 6, 6, 5, 6, 7, 2, 4, 2, 4, 7, 1, 5, 1, 2, 9, 9, 0, 5, 8, 3, 7, 0, 4, 9, 9, 9, 3,
      3, 1, 0, 7, 6, 8, 6, 7, 4, 3, 9, 7, 5, 8, 3, 7, 3, 7, 8, 0, 8, 9, 8, 3, 1, 1, 9, 1, 1, 8, 6, 1, 3, 4, 6, 8,
      7, 7, 0, 7, 8, 1, 5, 9, 4, 4, 2, 1, 7, 3, 4, 1, 0, 7, 3, 8, 3, 0, 6, 9, 1, 9, 8, 6, 4, 3, 5, 9, 9, 7, 6, 5,
      9, 3, 3, 0, 3, 4, 7, 2, 0, 8, 5, 3, 1, 0, 9, 6, 5, 3, 8, 1, 1, 2, 4, 1, 4, 6, 7, 9, 4, 6, 6, 5, 5, 9, 4, 0,
      7, 0, 3, 7, 1, 9, 8, 1, 7, 6, 4, 3, 5, 9, 4, 2, 5, 3, 8, 1, 6, 0, 1, 3, 7, 0, 3, 3, 5, 2, 2, 0, 4, 2, 0, 2>>

PowDigit(i) == IF i >= 1 /\ i <= Len(Pow2_1074) THEN Pow2_1074[i] ELSE 0

\* the sum of column i of the long multiplication c * 2^1074, c taken in
\* three parts of four digits
Column(c, i) ==
    PowDigit(i) * (c % 10000) + PowDigit(i - 4) * ((c \div 10000) % 10000)
        + PowDigit(i - 8) * (c \div 100000000)

\* the digits of the columns i..j with the carry cin coming in, and the carry
\* going out
RECURSIVE Carried(_, _, _, _)
Glue(lo, hi) == [d |-> lo \o hi.d, carry |-> hi.carry]

CarriedHigh(c, lo, i, j) == Glue(lo.d, Carried(c, i, j, lo.carry))

Carried(c, i, j, cin) ==
    IF i = j
    THEN [d |-> <<(Column(c, i) + cin) % 10>>, carry |-> (Column(c, i) + cin) \div 10]
    ELSE CarriedHigh(c, Carried(c, i, (i + j) \div 2, cin), (i + j) \div 2 + 1, j)

\* the digits of c * 2^1074, c < 2^31, the least significant first
Product(c) == Carried(c, 1, Len(Pow2_1074) + 12, 0).d

\* the whole part of p * 10^-s
RECURSIVE WholeFrom(_, _)
WholeFrom(p, i) == IF i > Len(p) THEN 0 ELSE p[i] + 10 * WholeFrom(p, i + 1)

Whole(p, s) == WholeFrom(p, s + 1)

\* p * 10^-s with the whole part w rounds up: its fraction is beyond a
\* half, or is a half and w is odd
RoundsUp(p, s, w) ==
    \/ p[s] > 5
    \/ p[s] = 5 /\ ((\E i \in 1..(s - 1) : p[i] # 0) \/ w % 2 = 1)

NearestTo(p, s, w) == IF RoundsUp(p, s, w) THEN w + 1 ELSE w

\* the k for which k * 2^-1074 is the double nearest to c * 10^q: the
\* integer nearest to c * 10^q * 2^1074
NearestStep(c, q) == NearestTo(Product(c), -q, Whole(Product(c), -q))

\* the digits of n * 10^e down to the place 10^q
DigitsDownTo(n, e, q) == IF q - e >= NumDigits(n) THEN 0 ELSE n \div Pow10(q - e)

\* the decimals c * 10^q that round to the double k * 2^-1074: they lie
\* within half a step of it as n * 10^e does, so next to n * 10^e (one
\* place of 1e-324 is about a fifth of a step)
CandidatesAt(n, e, k, q) ==
    {c \in {DigitsDownTo(n, e, q) + j : j \in (IF q = -324 THEN -4..5 ELSE {0, 1})} :
        c > 0 /\ NearestStep(c, q) = k}

SetMax(S) == CHOOSE m \in S : \A x \in S : x <= m
SetMin(S) == CHOOSE m \in S : \A x \in S : x >= m

\* the fraction a is beyond the nines' complement of the fraction b, read
\* from the places `diff` where they differ: a + b > 1
BeyondAt(a, b, diff) == diff # {} /\ a[SetMax(diff)] > 9 - b[SetMax(diff)]

Beyond(a, b) == BeyondAt(a, b, {i \in 1..324 : a[i] # 9 - b[i]})

\* of lo below and hi above k steps, both at the place 1e-324, the nearer
CloserOf(lo, hi) == IF Beyond(Product(hi), Product(lo)) THEN lo ELSE hi

ClosestOf(below, above) ==
    IF below = {} THEN SetMin(above)
    ELSE IF above = {} THEN SetMax(below)
    ELSE CloserOf(SetMax(below), SetMin(above))

\* the candidate nearest to k steps
Closest(cs, k) ==
    ClosestOf({c \in cs : Whole(Product(c), 324) = k - 1},
              {c \in cs : Whole(Product(c), 324) = k})

\* the shortest decimal that rounds to the double k * 2^-1074, the nearest
\* to it when there are several: the first place q, from the leading digit
\* of n * 10^e down, at which a decimal rounds to that double
RECURSIVE ShortestAt(_, _, _, _)
PickAt(cs, n, e, k, q) ==
    IF cs = {} THEN ShortestAt(n, e, k, q - 1)
    ELSE Trimmed(IF Cardinality(cs) = 1 THEN SetMin(cs) ELSE Closest(cs, k), q)

ShortestAt(n, e, k, q) == PickAt(CandidatesAt(n, e, k, q), n, e, k, q)

ShortestOf(n, e, k) ==
    IF k = 0 THEN FloatRec(0, 0, "") ELSE ShortestAt(n, e, k, NumDigits(n) + e)

\* the double nearest to n * 10^e < 1e-314, as its shortest decimal
NearestDouble(n, e) == ShortestOf(n, e, NearestStep(n, e))

\* the non-negative float f with the sign
Signed(sign, f) ==
    IF f.n = 0 THEN (IF sign < 0 THEN Special("-0") ELSE f)
    ELSE FloatRec(sign * f.n, f.e, "")

\* the double nearest to sign * n * 10^e, n >= 0
Rounded(sign, f) ==
    IF f.n = 0 THEN Signed(sign, f)
    ELSE IF TooLarge(f.n, f.e) THEN Special(IF sign < 0 THEN "-inf" ELSE "inf")
    ELSE IF TooSmall(f.n, f.e) THEN Signed(sign, FloatRec(0, 0, ""))
    ELSE IF FewDoubles(f.n, f.e) THEN Signed(sign, NearestDouble(f.n, f.e))
    ELSE FloatRec(sign * f.n, f.e, "")

\* the float sign * n * 10^e, n >= 0
MkFloat(sign, n, e) == Rounded(sign, Trimmed(n, e))

\* the float n * 10^e of a signed n
PFloat(n, e) == MkFloat(IF n < 0 THEN -1 ELSE 1, Abs(n), e)

\* truth value of x (bool(x), `if x`, `x or y`)
Truthy(x) ==
    CASE x.t = "none" -> FALSE
      [] x.t \in {"int", "bool"} -> x.n # 0
      [] x.t = "float" -> x.n # 0 \/ x.sp \in {"inf", "-inf", "nan"}
      [] x.t = "str" -> x.s # <<>>
      [] OTHER -> x.l # <<>>

\* x alone, without the fallback to y
PyOrFirst(x, y) == x

\* x or y
PyOr(x, y) == IF Truthy(x) THEN x ELSE y

\* ------------------------------------------------------ float() and int()
Unsigned(s) == IF s # <<>> /\ Head(s) \in {"+", "-"} THEN Tail(s) ELSE s
SignOf(s) == IF s # <<>> /\ Head(s) = "-" THEN -1 ELSE 1

\* an underscore of a literal stands between two digits
UnderscoresOk(s) ==
    \A i \in 1..Len(s) :
        s[i] = "_" => i > 1 /\ i < Len(s) /\ s[i - 1] \in DigitSet /\ s[i + 1] \in DigitSet

WithoutUnderscores(s) == SelectSeq(s, LAMBDA c : c # "_")

\* the literal without leading zeros
RECURSIVE NoLeadingZeros(_)
NoLeadingZeros(s) == IF s # <<>> /\ Head(s) = "0" THEN NoLeadingZeros(Tail(s)) ELSE s

\* the literal without trailing zeros
RECURSIVE NoTrailingZeros(_)
NoTrailingZeros(s) ==
    IF s # <<>> /\ s[Len(s)] = "0" THEN NoTrailingZeros(SubSeq(s, 1, Len(s) - 1)) ELSE s

\* the index of the first character of s that is in cs, 0 when there is none
FirstOf(s, cs) ==
    IF \E i \in 1..Len(s) : s[i] \in cs
    THEN CHOOSE i \in 1..Len(s) : s[i] \in cs /\ \A j \in 1..(i - 1) : s[j] \notin cs
    ELSE 0

\* the parts of an unsigned decimal literal `digits [. digits] [e [sign] digits]`
Mantissa(u) == IF FirstOf(u, {"e", "E"}) = 0 THEN u ELSE SubSeq(u, 1, FirstOf(u, {"e", "E"}) - 1)
HasExponent(u) == FirstOf(u, {"e", "E"}) # 0
Exponent(u) == SubSeq(u, FirstOf(u, {"e", "E"}) + 1, Len(u))
IntPart(m) == IF FirstOf(m, {"."}) = 0 THEN m ELSE SubSeq(m, 1, FirstOf(m, {"."}) - 1)
FracPart(m) == IF FirstOf(m, {"."}) = 0 THEN <<>> ELSE SubSeq(m, FirstOf(m, {"."}) + 1, Len(m))

\* the value of the exponent digits; beyond four digits any value is out of range
ExpDigitsVal(ds) ==
    IF Len(NoLeadingZeros(ds)) > 4 THEN 99999 ELSE DigitsVal(NoLeadingZeros(ds))

\* the value of the exponent part x of a literal, 0 when there is none
ExpVal(has, x) == IF has THEN SignOf(x) * ExpDigitsVal(Unsigned(x)) ELSE 0

\* the characters of s in lower case, for the letters of inf, infinity and nan
LowerOf ==
    ("I" :> "i") @@ ("N" :> "n") @@ ("F" :> "f") @@ ("T" :> "t") @@ ("Y" :> "y") @@
    ("A" :> "a")

Lower(s) == [i \in 1..Len(s) |-> IF s[i] \in DOMAIN LowerOf THEN LowerOf[s[i]] ELSE s[i]]

InfWords == {<<"i", "n", "f">>, <<"i", "n", "f", "i", "n", "i", "t", "y">>}
NanWord == <<"n", "a", "n">>

\* the digits ip.fp with the exponent x: well-formed when there is a digit in
\* ip or fp and, with an exponent, a digit in it
DecimalOk(ip, fp, has, x) ==
    /\ AllDigits(ip) /\ AllDigits(fp) /\ Len(ip) + Len(fp) > 0
    /\ has => AllDigits(Unsigned(x)) /\ Len(Unsigned(x)) > 0

\* the float of the digits ip.fp with the exponent ex: the trailing zeros of
\* the digits go into the exponent
DecimalVal(sign, ds, drop, ex) ==
    MkFloat(sign, DigitsVal(NoLeadingZeros(NoTrailingZeros(ds))),
            ex - drop + (Len(ds) - Len(NoTrailingZeros(ds))))

\* float() of the unsigned literal u without underscores; s is the str given
FloatOfParts(sign, u, s) ==
    IF Lower(u) \in InfWords THEN Ok(Special(IF sign < 0 THEN "-inf" ELSE "inf"))
    ELSE IF Lower(u) = NanWord THEN Ok(Special("nan"))
    ELSE IF DecimalOk(IntPart(Mantissa(u)), FracPart(Mantissa(u)), HasExponent(u), Exponent(u))
    THEN Ok(DecimalVal(sign, IntPart(Mantissa(u)) \o FracPart(Mantissa(u)),
                       Len(FracPart(Mantissa(u))), ExpVal(HasExponent(u), Exponent(u))))
    ELSE Err("ValueError", s)

\* float() of the literal t, the str s without the whitespace around it
FloatOfStripped(t, s) ==
    IF UnderscoresOk(t)
    THEN FloatOfParts(SignOf(t), WithoutUnderscores(Unsigned(t)), s)
    ELSE Err("ValueError", s)

\* float(s) of a str
ParseFloat(s) == FloatOfStripped(RStripSet(LStripSet(s, NumberSpace), NumberSpace), s)

\* int() of the literal t: [sign] digits, single underscores between digits
IntOfStripped(t, s) ==
    IF UnderscoresOk(t) /\ AllDigits(WithoutUnderscores(Unsigned(t)))
       /\ Len(WithoutUnderscores(Unsigned(t))) > 0
    THEN Ok(PInt(SignOf(t) * DigitsVal(NoLeadingZeros(WithoutUnderscores(Unsigned(t))))))
    ELSE Err("ValueError", s)

\* int(s) of a str
ParseInt(s) == IntOfStripped(RStripSet(LStripSet(s, NumberSpace), NumberSpace), s)

\* int(x) of a finite float: truncated toward zero
Truncated(x) ==
    IF x.e >= 0 THEN x.n * Pow10(x.e)
    ELSE IF -x.e >= NumDigits(Abs(x.n)) THEN 0
    ELSE IF x.n < 0 THEN -((-x.n) \div Pow10(-x.e))
    ELSE x.n \div Pow10(-x.e)

\* int(x) of a float
IntOfFloat(x) ==
    CASE x.sp \in {"inf", "-inf"} -> Err("OverflowError", <<>>)
      [] x.sp = "nan" -> Err("ValueError", <<>>)
      [] OTHER -> Ok(PInt(Truncated(x)))

\* float(x)
ToFloat(x) ==
    CASE x.t \in {"int", "bool"} -> Ok(PFloat(x.n, 0))
      [] x.t = "float" -> Ok(x)
      [] x.t = "str" -> ParseFloat(x.s)
      [] OTHER -> Err("TypeError", <<>>)

\* int(x)
ToInt(x) ==
    CASE x.t \in {"int", "bool"} -> Ok(PInt(x.n))
      [] x.t = "float" -> IntOfFloat(x)
      [] x.t = "str" -> ParseInt(x.s)
      [] OTHER -> Err("TypeError", <<>>)

\* the digits d with the point after the first k of them (fixed notation)
FixedStr(d, k) ==
    IF k <= 0 THEN <<"0", ".">> \o Zeros(-k) \o d
    ELSE IF k >= Len(d) THEN d \o Zeros(k - Len(d)) \o <<".", "0">>
    ELSE SubSeq(d, 1, k) \o <<".">> \o SubSeq(d, k + 1, Len(d))

\* the exponent x of the scientific notation: a sign and at least two digits
ExpStr(x) ==
    <<"e", IF x < 0 THEN "-" ELSE "+">>
        \o (IF Abs(x) < 10 THEN <<"0">> ELSE <<>>) \o NatToStr(Abs(x))

\* the digits d times 10^(k - 1) after the first digit (scientific notation)
SciStr(d, k) ==
    <<d[1]>> \o (IF Len(d) > 1 THEN <<".">> \o SubSeq(d, 2, Len(d)) ELSE <<>>) \o ExpStr(k - 1)

\* repr of the digits d with the decimal point after the first k of them:
\* scientific when k <= -4 or k > 16
DigitsStr(d, k) == IF k > -4 /\ k <= 16 THEN FixedStr(d, k) ELSE SciStr(d, k)

\* str(x) and repr(x) of a float
FloatToStr(x) ==
    CASE x.sp = "inf" -> <<"i", "n", "f">>
      [] x.sp = "-inf" -> <<"-", "i", "n", "f">>
      [] x.sp = "nan" -> <<"n", "a", "n">>
      [] x.sp = "-0" -> <<"-", "0", ".", "0">>
      [] x.n = 0 -> <<"0", ".", "0">>
      [] OTHER -> (IF x.n < 0 THEN <<"-">> ELSE <<>>)
                      \o DigitsStr(NatToStr(Abs(x.n)), NumDigits(Abs(x.n)) + x.e)

\* [float(x) for x in xs]: the first element that fails raises
RECURSIVE FloatsFrom(_, _, _)
FloatsStep(xs, i, acc, h) ==
    IF ~h.ok THEN h ELSE FloatsFrom(xs, i + 1, Append(acc, h.v))

FloatsFrom(xs, i, acc) ==
    IF i > Len(xs) THEN Ok(acc) ELSE FloatsStep(xs, i, acc, ToFloat(xs[i]))

FloatsOf(xs) == FloatsFrom(xs, 1, <<>>)

\* the `if x.strip()` filter left out: empty fragments are kept
StrippedFragmentsKeepEmpty(frags) == [i \in 1..Len(frags) |-> Strip(frags[i])]

\* the fragments x with a non-empty x.strip(), stripped
StrippedFragments(frags) ==
    SelectSeq([i \in 1..Len(frags) |-> Strip(frags[i])], LAMBDA x : x # <<>>)

RECURSIVE StrList(_)
StrList(xs) == IF xs = <<>> THEN <<>> ELSE <<PStr(Head(xs))>> \o StrList(Tail(xs))

\* [float(x.strip()) for x in s.split(",") if x.strip()]
FloatsOfStr(s) == FloatsOf(StrList(StrippedFragments(SplitComma(s))))

\* ------------------------------------------------------------- constants
Domain == "math_tools"
CONF_BASE_URL == "base_url"
CONF_API_KEY == "api_key"

HTTP == <<"h", "t", "t", "p", ":", "/", "/">>
HTTPS == <<"h", "t", "t", "p", "s", ":", "/", "/">>
DEFAULT_BASE_URL == <<"h", "t", "t", "p", ":", "/", "/", "1", "2", "7", ".", "0", ".", "0", ".", "1", ":", "8", "0", "0", "0">>
LEGACY_BASE_URL == <<"h", "t", "t", "p", ":", "/", "/", "1", "7", "2", ".", "1", "6", ".", "2", ".", "2", "2", "3", ":", "8", "1", "1", "1">>

EP_add == <<"/", "m", "a", "t", "h", "/", "a", "d", "d">>
EP_subtract == <<"/", "m", "a", "t", "h", "/", "s", "u", "b", "t", "r", "a", "c", "t">>
EP_multiply == <<"/", "m", "a", "t", "h", "/", "m", "u", "l", "t", "i", "p", "l", "y">>
EP_divide == <<"/", "m", "a", "t", "h", "/", "d", "i", "v", "i", "d", "e">>
EP_power == <<"/", "m", "a", "t", "h", "/", "p", "o", "w", "e", "r">>
EP_mean == <<"/", "m", "a", "t", "h", "/", "m", "e", "a", "n">>
EP_median == <<"/", "m", "a", "t", "h", "/", "m", "e", "d", "i", "a", "n">>
EP_std == <<"/", "m", "a", "t", "h", "/", "s", "t", "d">>
EP_gcd == <<"/", "a", "l", "g", "o", "r", "i", "t", "h", "m", "s", "/", "g", "c", "d">>
EP_lcm == <<"/", "a", "l", "g", "o", "r", "i", "t", "h", "m", "s", "/", "l", "c", "m">>
EP_is_prime == <<"/", "a", "l", "g", "o", "r", "i", "t", "h", "m", "s", "/", "i", "s", "_", "p", "r", "i", "m", "e">>
EP_prime_factors == <<"/", "a", "l", "g", "o", "r", "i", "t", "h", "m", "s", "/", "p", "r", "i", "m", "e", "_", "f", "a", "c", "t", "o", "r", "s">>
EP_fibonacci == <<"/", "a", "l", "g", "o", "r", "i", "t", "h", "m", "s", "/", "f", "i", "b", "o", "n", "a", "c", "c", "i">>
EP_sort == <<"/", "a", "l", "g", "o", "r", "i", "t", "h", "m", "s", "/", "s", "o", "r", "t">>
EP_moving_average == <<"/", "a", "l", "g", "o", "r", "i", "t", "h", "m", "s", "/", "m", "o", "v", "i", "n", "g", "_", "a", "v", "e", "r", "a", "g", "e">>
EP_rolling_min == <<"/", "a", "l", "g", "o", "r", "i", "t", "h", "m", "s", "/", "r", "o", "l", "l", "i", "n", "g", "_", "m", "i", "n">>
EP_rolling_max == <<"/", "a", "l", "g", "o", "r", "i", "t", "h", "m", "s", "/", "r", "o", "l", "l", "i", "n", "g", "_", "m", "a", "x">>

\* the 17 service names, in the order async_setup_entry registers them
ServiceNames ==
    {"add", "subtract", "multiply", "divide", "power", "mean", "median", "std",
     "gcd", "lcm", "is_prime", "prime_factors", "fibonacci", "sort",
     "moving_average", "rolling_min", "rolling_max"}

\* the 9 intent types, in the order async_register_intents registers them
IntentTypes ==
    <<"MathAdd", "MathFibonacci", "MathIsPrime", "MathGcd", "MathLcm",
      "MathPrimeFactors", "MathMean", "MathMedian", "MathStd">>

IntentTypeSet == {IntentTypes[i] : i \in 1..Len(IntentTypes)}

\* ------------------------------------------------------------------ state
VARIABLES
    profile,        \* "entry": math_tools/__init__.py; "legacy": custom_components/__init__.py
    hostHasLogger,  \* whether the host object has a `logger` attribute
    env,            \* process environment: MATH_TOOLS_BASE_URL, MATH_TOOLS_API_KEY
    entries,        \* the config entries of the domain, oldest first
    flows,          \* the config flows of the host, by flow id
    entryState,     \* "not_loaded", "loaded" or "setup_error"
    listener,       \* the update listener of the entry is registered
    reloads,        \* reloads scheduled by the update listener and not yet run
    setupCount,     \* setups run so far; a setup's handlers carry its number
    services,       \* hass.services of the domain: name -> handler
    intents,        \* the host's intent registry: intent type -> handler
    lastSetup,      \* how the most recent setup ended
    pending,        \* the invocations in flight, suspended in _post: a bag
    lastCall        \* the invocation that finished in the latest step, if any

vars == <<profile, hostHasLogger, env, entries, flows, entryState, listener, reloads,
          setupCount, services, intents, lastSetup, pending, lastCall>>

cfgVars == <<profile, hostHasLogger, env>>

\* ------------------------------------------------------------ config flow
FlowIds == 1..MaxFlows

NoInput == [none |-> TRUE, base_url |-> <<>>, api_key |-> <<>>]
Input(b, k) == [none |-> FALSE, base_url |-> b, api_key |-> k]

NoData == [base_url |-> PNone, api_key |-> PNone]

\* what a step of the flow returns: the result type, the abort reason, the
\* form errors and, for create_entry, the entry data
FlowResult(type, reason, errors, data) ==
    [type |-> type, reason |-> reason, errors |-> errors, data |-> data]

\* the single-instance check left out
HasCurrentEntriesNever(cur) == FALSE

\* `if self._async_current_entries():` over the entries `cur` of the domain
HasCurrentEntries(cur) == cur # <<>>

\* `not (base.startswith("http://") or base.startswith("https://"))` negated
ValidBase(base) == StartsWith(base, HTTP) \/ StartsWith(base, HTTPS)

\* `<str>.strip() or None`
StripOrNone(s) == PyOr(PStr(Strip(s)), PNone)

\* async_step_user past the single-instance check and the form, `base` being
\* user_input[CONF_BASE_URL].strip().rstrip("/")
CreateOrReject(base, user_input) ==
    IF ~ValidBase(base)
    THEN FlowResult("form", "", "invalid_url", NoData)
    ELSE FlowResult("create_entry", "", "",
                    [base_url |-> PStr(base), api_key |-> StripOrNone(user_input.api_key)])

\* MathToolsConfigFlow.async_step_user(user_input)
async_step_user(cur, user_input) ==
    IF HasCurrentEntries(cur)
    THEN FlowResult("abort", "single_instance_allowed", "", NoData)
    ELSE IF user_input.none
    THEN FlowResult("form", "", "", NoData)
    ELSE CreateOrReject(RStripSlash(Strip(user_input.base_url)), user_input)

\* MathToolsConfigFlow.async_step_import(user_input)
async_step_import(cur, user_input) == async_step_user(cur, user_input)

\* OptionsFlowHandler.async_step_init(user_input), user_input given: the options saved
async_step_init(user_input) ==
    [base_url |-> PStr(RStripSlash(Strip(user_input.base_url))),
     api_key |-> StripOrNone(user_input.api_key)]

NewEntry(data) == [data |-> data, options |-> NoData]

\* ------------------------------------------------------- service registry
NoHandler == [gen |-> 0, via |-> "", kind |-> "", ep |-> <<>>, extra |-> <<>>]

\* the handler a registration creates: `gen` is the number of the setup that
\* created it, `kind` the code of the closure, `ep` the endpoint it captured
Handler(gen, via, kind, ep, extra) ==
    [gen |-> gen, via |-> via, kind |-> kind, ep |-> ep, extra |-> extra]

\* a handler is registered in this slot of the registry
Registered(slot) == slot # NoHandler

\* hass.services.has_service(DOMAIN, name)
_svc_exists(svcs, name) == Registered(svcs[name])

\* hass.services.async_register(DOMAIN, name, handler): the host stores the
\* handler under the name, in place of any handler already there
async_register(svcs, name, h) == [svcs EXCEPT ![name] = h]

\* `if _svc_exists(name): return` / `if not _svc_exists(name):` then register
RegisterOnce(svcs, name, h) ==
    [svcs EXCEPT ![name] = IF Registered(@) THEN @ ELSE h]

_register_binary_service(svcs, name, endpoint, gen) ==
    RegisterOnce(svcs, name, Handler(gen, "entry", "binary", endpoint, <<>>))

_register_values_service(svcs, name, endpoint, extra_fields, gen) ==
    RegisterOnce(svcs, name, Handler(gen, "entry", "values", endpoint, extra_fields))

\* a handler that reads the loop variable when it is called: the last pair's endpoint
LoopEndpointLast(pairs, i) == pairs[Len(pairs)].ep

\* the endpoint the handler of iteration i of a registration loop captures
\* (`ep=endpoint`: bound when the handler is defined)
LoopEndpoint(pairs, i) == pairs[i].ep

\* `for name, endpoint in pairs: if not _svc_exists(name): ... async_register`
RECURSIVE RegisterLoop(_, _, _, _, _)
RegisterLoop(svcs, pairs, i, kind, gen) ==
    IF i > Len(pairs) THEN svcs
    ELSE RegisterLoop(
             RegisterOnce(svcs, pairs[i].name,
                          Handler(gen, "entry", kind, LoopEndpoint(pairs, i), <<>>)),
             pairs, i + 1, kind, gen)

GcdLcmPairs == <<[name |-> "gcd", ep |-> EP_gcd], [name |-> "lcm", ep |-> EP_lcm]>>

WindowPairs ==
    <<[name |-> "moving_average", ep |-> EP_moving_average],
      [name |-> "rolling_min", ep |-> EP_rolling_min],
      [name |-> "rolling_max", ep |-> EP_rolling_max]>>

\* the service registrations of async_setup_entry, in source order
SetupEntryServices(svcs, gen) ==
    LET s1 == _register_binary_service(svcs, "add", EP_add, gen)
        s2 == _register_binary_service(s1, "subtract", EP_subtract, gen)
        s3 == _register_binary_service(s2, "multiply", EP_multiply, gen)
        s4 == RegisterOnce(s3, "divide", Handler(gen, "entry", "binary", EP_divide, <<>>))
        s5 == RegisterOnce(s4, "power", Handler(gen, "entry", "power", EP_power, <<>>))
        s6 == _register_values_service(s5, "mean", EP_mean, <<>>, gen)
        s7 == _register_values_service(s6, "median", EP_median, <<>>, gen)
        s8 == RegisterOnce(s7, "std", Handler(gen, "entry", "std", EP_std, <<>>))
        s9 == RegisterLoop(s8, GcdLcmPairs, 1, "intpair", gen)
        s10 == RegisterOnce(s9, "is_prime", Handler(gen, "entry", "intn", EP_is_prime, <<>>))
        s11 == RegisterOnce(s10, "prime_factors", Handler(gen, "entry", "intn", EP_prime_factors, <<>>))
        s12 == RegisterOnce(s11, "fibonacci", Handler(gen, "entry", "intn", EP_fibonacci, <<>>))
        s13 == _register_values_service(s12, "sort", EP_sort, <<"reverse">>, gen)
    IN RegisterLoop(s13, WindowPairs, 1, "window", gen)

\* the registrations of the legacy async_setup: no existence check
LegacyRegistrations ==
    <<[name |-> "add", kind |-> "binary", ep |-> EP_add, extra |-> <<>>],
      [name |-> "subtract", kind |-> "binary", ep |-> EP_subtract, extra |-> <<>>],
      [name |-> "multiply", kind |-> "binary", ep |-> EP_multiply, extra |-> <<>>],
      [name |-> "divide", kind |-> "binary", ep |-> EP_divide, extra |-> <<>>],
      [name |-> "power", kind |-> "power", ep |-> EP_power, extra |-> <<>>],
      [name |-> "mean", kind |-> "values", ep |-> EP_mean, extra |-> <<>>],
      [name |-> "median", kind |-> "values", ep |-> EP_median, extra |-> <<>>],
      [name |-> "std", kind |-> "std", ep |-> EP_std, extra |-> <<>>],
      [name |-> "gcd", kind |-> "intpair", ep |-> EP_gcd, extra |-> <<>>],
      [name |-> "lcm", kind |-> "intpair", ep |-> EP_lcm, extra |-> <<>>],
      [name |-> "is_prime", kind |-> "intn", ep |-> EP_is_prime, extra |-> <<>>],
      [name |-> "prime_factors", kind |-> "intn", ep |-> EP_prime_factors, extra |-> <<>>],
      [name |-> "fibonacci", kind |-> "intn", ep |-> EP_fibonacci, extra |-> <<>>],
      [name |-> "sort", kind |-> "values", ep |-> EP_sort, extra |-> <<"reverse">>],
      [name |-> "moving_average", kind |-> "window", ep |-> EP_moving_average, extra |-> <<>>],
      [name |-> "rolling_min", kind |-> "window", ep |-> EP_rolling_min, extra |-> <<>>],
      [name |-> "rolling_max", kind |-> "window", ep |-> EP_rolling_max, extra |-> <<>>]>>

\* one legacy registration: hass.services.async_register, unconditionally
LegacyRegister(svcs, r, gen) ==
    async_register(svcs, r.name, Handler(gen, "legacy", r.kind, r.ep, r.extra))

RECURSIVE LegacyRegisterFrom(_, _, _)
LegacyRegisterFrom(svcs, i, gen) ==
    IF i > Len(LegacyRegistrations) THEN svcs
    ELSE LegacyRegisterFrom(LegacyRegister(svcs, LegacyRegistrations[i], gen), i + 1, gen)

LegacySetupServices(svcs, gen) == LegacyRegisterFrom(svcs, 1, gen)

\* -------------------------------------------------------- intent registry
NoIntent == [gen |-> 0, via |-> ""]

\* async_register_intents(hass, post): intent.async_register stores each
\* handler under its intent_type, in place of one already there; `failAt` is
\* the number of handlers registered before the registration raises
\* (Len(IntentTypes) when it does not raise, 0 when the import itself fails)
async_register_intents(ints, gen, via, failAt) ==
    [t \in IntentTypeSet |->
        IF \E i \in 1..failAt : IntentTypes[i] = t THEN [gen |-> gen, via |-> via] ELSE ints[t]]

IntentsRaise(failAt) == failAt < Len(IntentTypes)

\* `except Exception as e: hass.logger.error(...)`: evaluating hass.logger
\* raises AttributeError on a host object without that attribute
\* (homeassistant.core.HomeAssistant defines none); the setup ends "ok" when
\* it reaches `return True` and "raised" when an exception escapes it
SetupOutcome(failAt, hasLogger) ==
    IF IntentsRaise(failAt) /\ ~hasLogger THEN "raised" ELSE "ok"

\* ------------------------------------------------------ transport adapter
\* the data of an upstream response: a JSON object, `has` telling whether it
\* has the key "result"; `detail` stands for the rest of the object
NoBody == [json |-> TRUE, has |-> FALSE, result |-> PNone, detail |-> ""]
Body(has, result, detail) ==
    [json |-> TRUE, has |-> has, result |-> result, detail |-> detail]
\* a response body that is no JSON document: `text` stands for its characters
RawBody(text) == [json |-> FALSE, has |-> FALSE, result |-> PNone, detail |-> text]
Response(status, data) == [status |-> status, data |-> data]

NoErr == [type |-> "", status |-> 0, data |-> NoBody, what |-> <<>>]
RaisedErr(e) == [type |-> e.err, status |-> 0, data |-> NoBody, what |-> e.what]

\* the configuration of the first config entry
Entry == entries[1]

\* _get_cfg() of async_setup_entry: read from the entry when called
_get_cfg ==
    [base |-> RStripSlash(PyOr(PyOr(Entry.options.base_url, Entry.data.base_url),
                               PStr(DEFAULT_BASE_URL)).s),
     key |-> PyOr(Entry.options.api_key, Entry.data.api_key)]

\* os.environ.get(name, default)
EnvGet(v, default) == IF v.t = "none" THEN default ELSE v

\* base_url, api_key of the legacy async_setup
LegacyCfg ==
    [base |-> RStripSlash(EnvGet(env.base_url, PStr(LEGACY_BASE_URL)).s),
     key |-> env.api_key]

CfgOf(via) == IF via = "legacy" THEN LegacyCfg ELSE _get_cfg

\* `resp.status >= 400`
IsErrorStatus(status) == status >= 400

\* _post up to `async with session.post(url, json=payload, headers=headers)`:
\* the request, built from the configuration as it is when _post is called
PostRequest(cfg, endpoint, payload) ==
    [url |-> cfg.base \o <<"/">> \o LStripSlash(endpoint),
     content_type |-> "application/json",
     api_key |-> IF Truthy(cfg.key) THEN cfg.key ELSE PNone,
     json |-> payload]

\* _post from `data = await resp.json(content_type=None)` on: the body is
\* parsed before the status is looked at, and parsing raises on a body that
\* is no JSON document
PostResult(resp) ==
    [raised |-> ~resp.data.json \/ IsErrorStatus(resp.status),
     err |-> IF ~resp.data.json
             THEN [type |-> "JSONDecodeError", status |-> 0, data |-> NoBody, what |-> <<>>]
             ELSE IF IsErrorStatus(resp.status)
             THEN [type |-> "RuntimeError", status |-> resp.status, data |-> resp.data,
                   what |-> <<>>]
             ELSE NoErr,
     data |-> resp.data]

\* _post(endpoint, payload) answered with resp: the one request it issues,
\* and how it ends
_post(cfg, endpoint, payload, resp) ==
    [request |-> PostRequest(cfg, endpoint, payload),
     raised |-> PostResult(resp).raised,
     err |-> PostResult(resp).err,
     data |-> PostResult(resp).data]

\* ------------------------------------------------------ service handlers
\* call data without any field
EmptyData == [f \in {} |-> PNone]

\* float(x) or int(x), as the handler's number type ty says
Convert(ty, x) == IF ty = "float" THEN ToFloat(x) ELSE ToInt(x)

\* ty(call.data.get(f, 0)): a missing key reads as 0
ReqOrZero(data, f, ty) ==
    IF f \in DOMAIN data THEN Convert(ty, data[f]) ELSE Convert(ty, PInt(0))

\* ty(call.data[f]): KeyError when the key is missing
Req(data, f, ty) ==
    IF f \in DOMAIN data THEN Convert(ty, data[f]) ELSE Err("KeyError", <<f>>)

\* call.data.get(f)
Get(data, f) == IF f \in DOMAIN data THEN data[f] ELSE PNone

\* two required fields, converted in order, as the payload {f1: .., f2: ..}
PairPayload(a, b, f1, f2) ==
    IF ~a.ok THEN a
    ELSE IF ~b.ok THEN b
    ELSE Ok((f1 :> a.v) @@ (f2 :> b.v))

Pair(data, f1, f2, ty) ==
    PairPayload(Req(data, f1, ty), Req(data, f2, ty), f1, f2)

\* one required int field n, as the payload {"n": n}
NPayload(n) == IF ~n.ok THEN n ELSE Ok("n" :> n.v)

\* the normalized values v with the other fields of the payload
ValuesPayload(v, rest) ==
    IF ~v.ok THEN v ELSE Ok(rest @@ ("values" :> PList(v.v)))

\* the normalized values v, then the required int field window
WindowPayload(v, w) ==
    IF ~v.ok THEN v
    ELSE IF ~w.ok THEN w
    ELSE Ok(("values" :> PList(v.v)) @@ ("window" :> w.v))

\* the three-branch normalizer of _register_values_service._handler
ValuesOf(values) ==
    CASE values.t = "str" -> FloatsOfStr(values.s)
      [] values.t = "list" -> FloatsOf(values.l)
      [] OTHER -> Ok(<<>>)

\* the two-branch normalizer of std and of the window handlers:
\* `else: [float(x) for x in values]` iterates whatever is not a str
IterFloatsOf(values) ==
    CASE values.t = "str" -> FloatsOfStr(values.s)
      [] values.t \in {"list", "tuple"} -> FloatsOf(values.l)
      [] OTHER -> Err("TypeError", <<>>)

\* _to_floats of intent.py
_to_floats(maybe_values) ==
    CASE maybe_values.t = "str" -> FloatsOfStr(maybe_values.s)
      [] maybe_values.t = "list" -> FloatsOf(maybe_values.l)
      [] OTHER -> Ok(<<>>)

\* `for f in extra_fields: if f in call.data: payload[f] = call.data[f]`
ExtraOf(data, extra_fields) ==
    LET fs == {extra_fields[i] : i \in 1..Len(extra_fields)} \cap DOMAIN data
    IN [f \in fs |-> data[f]]

\* the payload a service handler builds from call.data, or the exception it raises
HandlerPayload(h, data) ==
    CASE h.kind = "binary" -> Pair(data, "a", "b", "float")
      [] h.kind = "power" -> Pair(data, "base", "exponent", "float")
      [] h.kind = "intpair" -> Pair(data, "a", "b", "int")
      [] h.kind = "intn" -> NPayload(Req(data, "n", "int"))
      [] h.kind = "values" ->
            ValuesPayload(ValuesOf(Get(data, "values")), ExtraOf(data, h.extra))
      [] h.kind = "std" ->
            ValuesPayload(IterFloatsOf(Get(data, "values")),
                          "sample" :> PBool(Truthy(Get(data, "sample"))))
      [] h.kind = "window" ->
            WindowPayload(IterFloatsOf(Get(data, "values")), Req(data, "window", "int"))

\* ------------------------------------------------------- intent handlers
\* the literal text of the speech and card f-strings of intent.py
Txt ==
    [none_word |-> <<"n", "o", "n", "e">>,
     none_repr |-> <<"N", "o", "n", "e">>,
     true_repr |-> <<"T", "r", "u", "e">>,
     false_repr |-> <<"F", "a", "l", "s", "e">>,
     comma_sp |-> <<",", " ">>,
     and_more |-> <<",", " ", "a", "n", "d", " ", "m", "o", "r", "e">>,
     times |-> <<" ", "×", " ">>,
     arrow |-> <<" ", "→", " ">>,
     dot |-> <<".">>,
     add_1 |-> <<"T", "h", "e", " ", "s", "u", "m", " ", "o", "f", " ">>,
     and |-> <<" ", "a", "n", "d", " ">>,
     is |-> <<" ", "i", "s", " ">>,
     plus |-> <<" ", "+", " ">>,
     eq |-> <<" ", "=", " ">>,
     fib_1 |-> <<"T", "h", "e", " ", "F", "i", "b", "o", "n", "a", "c", "c", "i", " ", "s", "e", "q", "u", "e", "n", "c", "e", " ", "u", "p", " ", "t", "o", " ">>,
     fib_2 |-> <<" ", "t", "e", "r", "m", "s", " ", "i", "s", ":", " ">>,
     n_eq |-> <<"n", "=">>,
     colon |-> <<":", " ">>,
     prime_a |-> <<"a", " ", "p", "r", "i", "m", "e">>,
     prime_not |-> <<"n", "o", "t", " ", "a", " ", "p", "r", "i", "m", "e">>,
     prime_2 |-> <<" ", "n", "u", "m", "b", "e", "r", ".">>,
     gcd_1 |-> <<"T", "h", "e", " ", "g", "r", "e", "a", "t", "e", "s", "t", " ", "c", "o", "m", "m", "o", "n", " ", "d", "i", "v", "i", "s", "o", "r", " ", "o", "f", " ">>,
     gcd_c |-> <<"g", "c", "d", "(">>,
     lcm_1 |-> <<"T", "h", "e", " ", "l", "e", "a", "s", "t", " ", "c", "o", "m", "m", "o", "n", " ", "m", "u", "l", "t", "i", "p", "l", "e", " ", "o", "f", " ">>,
     lcm_c |-> <<"l", "c", "m", "(">>,
     close_eq |-> <<")", " ", "=", " ">>,
     pf_1 |-> <<"T", "h", "e", " ", "p", "r", "i", "m", "e", " ", "f", "a", "c", "t", "o", "r", "s", " ", "o", "f", " ">>,
     pf_2 |-> <<" ", "a", "r", "e", " ">>,
     mean_1 |-> <<"T", "h", "e", " ", "m", "e", "a", "n", " ", "i", "s", " ">>,
     median_1 |-> <<"T", "h", "e", " ", "m", "e", "d", "i", "a", "n", " ", "i", "s", " ">>,
     the |-> <<"T", "h", "e", " ">>,
     sample |-> <<"s", "a", "m", "p", "l", "e">>,
     population |-> <<"p", "o", "p", "u", "l", "a", "t", "i", "o", "n">>,
     std_2 |-> <<" ", "s", "t", "a", "n", "d", "a", "r", "d", " ", "d", "e", "v", "i", "a", "t", "i", "o", "n", " ", "i", "s", " ">>,
     values_eq |-> <<"v", "a", "l", "u", "e", "s", "=">>,
     sample_eq |-> <<",", " ", "s", "a", "m", "p", "l", "e", "=">>]

\* repr(x): a str in quotes, a list as "[e1, e2]", a tuple as "(e1, e2)" or "(e1,)"
RECURSIVE PyRepr(_)
ReprsOf(xs) == [i \in 1..Len(xs) |-> PyRepr(xs[i])]

TupleRepr(xs) ==
    <<"(">> \o Join(ReprsOf(xs), Txt.comma_sp) \o (IF Len(xs) = 1 THEN <<",">> ELSE <<>>) \o <<")">>

PyRepr(x) ==
    CASE x.t = "none" -> Txt.none_repr
      [] x.t = "int" -> IntToStr(x.n)
      [] x.t = "float" -> FloatToStr(x)
      [] x.t = "bool" -> IF x.n = 1 THEN Txt.true_repr ELSE Txt.false_repr
      [] x.t = "str" -> ReprStr(x.s)
      [] x.t = "list" -> <<"[">> \o Join(ReprsOf(x.l), Txt.comma_sp) \o <<"]">>
      [] OTHER -> TupleRepr(x.l)

\* str(x), f"{x}": a str as itself, any other value as repr(x)
PyStr(x) == IF x.t = "str" THEN x.s ELSE PyRepr(x)

\* map(str, xs)
StrsOf(xs) == [i \in 1..Len(xs) |-> PyStr(xs[i])]

\* x can be sliced and iterated: a list, a tuple or a str
IsSequence(x) == x.t \in {"list", "tuple", "str"}

\* the items of a sequence: the elements of a list, the characters of a str
ItemsOf(x) == IF x.t = "str" THEN [i \in 1..Len(x.s) |-> PStr(<<x.s[i]>>)] ELSE x.l

\* data.get("result") and data.get("result", [])
Result(data) == IF data.has THEN data.result ELSE PNone
ResultOrEmpty(data) == IF data.has THEN data.result ELSE PList(<<>>)

\* the endpoint each intent handler posts to
IntentEndpoint(type) ==
    CASE type = "MathAdd" -> EP_add
      [] type = "MathFibonacci" -> EP_fibonacci
      [] type = "MathIsPrime" -> EP_is_prime
      [] type = "MathGcd" -> EP_gcd
      [] type = "MathLcm" -> EP_lcm
      [] type = "MathPrimeFactors" -> EP_prime_factors
      [] type = "MathMean" -> EP_mean
      [] type = "MathMedian" -> EP_median
      [] OTHER -> EP_std

\* intent_obj.slots.get(f, {}).get("value")
SlotGet(slots, f) == IF f \in DOMAIN slots THEN slots[f] ELSE PNone

\* the payload an intent handler builds from the slots, or the exception it raises
IntentPayload(type, slots) ==
    CASE type = "MathAdd" -> Pair(slots, "a", "b", "float")
      [] type \in {"MathGcd", "MathLcm"} -> Pair(slots, "a", "b", "int")
      [] type \in {"MathFibonacci", "MathIsPrime", "MathPrimeFactors"} ->
            NPayload(Req(slots, "n", "int"))
      [] type \in {"MathMean", "MathMedian"} ->
            ValuesPayload(_to_floats(SlotGet(slots, "values")), EmptyData)
      [] OTHER ->
            ValuesPayload(_to_floats(SlotGet(slots, "values")),
                          "sample" :> PBool(Truthy(SlotGet(slots, "sample"))))

NoReply == [speech |-> <<>>, title |-> "", card |-> <<>>]
Reply(speech, title, card) == [speech |-> speech, title |-> title, card |-> card]

\* the number of terms the Fibonacci speech lists at most
SpeechTerms == 30

\* seq[:30]
FirstTerms(seq) == SubSeq(seq, 1, Min(SpeechTerms, Len(seq)))

\* `len(seq) >= 30`: thirty terms already count as more
HasMoreAtLimit(seq) == Len(seq) >= SpeechTerms

\* `len(seq) > 30`
HasMore(seq) == Len(seq) > SpeechTerms

\* FibonacciIntent: ", ".join(map(str, seq[:30])) + (", and more" if len(seq) > 30 else "")
FibSpeak(seq) ==
    Join(StrsOf(FirstTerms(seq)), Txt.comma_sp) \o (IF HasMore(seq) THEN Txt.and_more ELSE <<>>)

\* `if len(fac) > 1`: a single factor counts as none
HasSeveralFactors(fac) == Len(ItemsOf(fac)) > 1

\* `if fac` of PrimeFactorsIntent
HasFactors(fac) == Truthy(fac)

\* PrimeFactorsIntent: " × ".join(map(str, fac)) if fac else "none"
FactorsSpeak(fac) ==
    IF HasFactors(fac) THEN Join(StrsOf(ItemsOf(fac)), Txt.times) ELSE Txt.none_word

\* the speech and card of each handler, from the strings of its inputs and result
AddReply(a, b, res) ==
    Reply(Txt.add_1 \o a \o Txt.and \o b \o Txt.is \o res \o Txt.dot,
          "Addition", a \o Txt.plus \o b \o Txt.eq \o res)

\* a result that is no list and no str cannot be sliced: TypeError
FibonacciReply(n, seq) ==
    IF ~IsSequence(seq) THEN Err("TypeError", <<>>)
    ELSE Ok(Reply(Txt.fib_1 \o n \o Txt.fib_2 \o FibSpeak(ItemsOf(seq)) \o Txt.dot,
                  "Fibonacci", Txt.n_eq \o n \o Txt.colon \o PyStr(seq)))

IsPrimeReply(n, res) ==
    Reply(n \o Txt.is \o (IF res THEN Txt.prime_a ELSE Txt.prime_not) \o Txt.prime_2,
          "Prime check", n \o Txt.arrow \o PyStr(PBool(res)))

GcdReply(a, b, res) ==
    Reply(Txt.gcd_1 \o a \o Txt.and \o b \o Txt.is \o res \o Txt.dot,
          "GCD", Txt.gcd_c \o a \o Txt.comma_sp \o b \o Txt.close_eq \o res)

LcmReply(a, b, res) ==
    Reply(Txt.lcm_1 \o a \o Txt.and \o b \o Txt.is \o res \o Txt.dot,
          "LCM", Txt.lcm_c \o a \o Txt.comma_sp \o b \o Txt.close_eq \o res)

\* a truthy result that is no list and no str cannot be iterated: TypeError
PrimeFactorsReply(n, fac) ==
    IF HasFactors(fac) /\ ~IsSequence(fac) THEN Err("TypeError", <<>>)
    ELSE Ok(Reply(Txt.pf_1 \o n \o Txt.pf_2 \o FactorsSpeak(fac) \o Txt.dot,
                  "Prime factors", n \o Txt.arrow \o PyStr(fac)))

MeanReply(values, res) ==
    Reply(Txt.mean_1 \o res \o Txt.dot, "Mean", Txt.values_eq \o values \o Txt.arrow \o res)

MedianReply(values, res) ==
    Reply(Txt.median_1 \o res \o Txt.dot, "Median", Txt.values_eq \o values \o Txt.arrow \o res)

StdReply(values, sample, res) ==
    Reply(Txt.the \o (IF sample.n = 1 THEN Txt.sample ELSE Txt.population) \o Txt.std_2
              \o res \o Txt.dot,
          "Std",
          Txt.values_eq \o values \o Txt.sample_eq \o PyStr(sample) \o Txt.arrow \o res)

\* what the handler does with the data _post returned: the response, or the
\* exception raised while formatting (a result that cannot be sliced or joined)
IntentReply(type, p, data) ==
    CASE type = "MathAdd" -> Ok(AddReply(PyStr(p["a"]), PyStr(p["b"]), PyStr(Result(data))))
      [] type = "MathFibonacci" -> FibonacciReply(PyStr(p["n"]), ResultOrEmpty(data))
      [] type = "MathIsPrime" -> Ok(IsPrimeReply(PyStr(p["n"]), Truthy(Result(data))))
      [] type = "MathGcd" -> Ok(GcdReply(PyStr(p["a"]), PyStr(p["b"]), PyStr(Result(data))))
      [] type = "MathLcm" -> Ok(LcmReply(PyStr(p["a"]), PyStr(p["b"]), PyStr(Result(data))))
      [] type = "MathPrimeFactors" -> PrimeFactorsReply(PyStr(p["n"]), ResultOrEmpty(data))
      [] type = "MathMean" -> Ok(MeanReply(PyStr(p["values"]), PyStr(Result(data))))
      [] type = "MathMedian" -> Ok(MedianReply(PyStr(p["values"]), PyStr(Result(data))))
      [] OTHER -> Ok(StdReply(PyStr(p["values"]), p["sample"], PyStr(Result(data))))

\* ------------------------------------------------------------ invocation
\* one run of a handler: the call it was started with, the request it issued
\* (`posts`), the response it was resumed with, and how it ended
NoCall ==
    [kind |-> "none", name |-> "", gen |-> 0, via |-> "", data |-> EmptyData,
     frags |-> <<>>, posts |-> <<>>, resp |-> Response(0, NoBody), outcome |-> "",
     err |-> NoErr, ret |-> NoBody, reply |-> NoReply]

\* the host starts the handler h, registered under `name`, with the call data
Invocation(kind, name, h, data, frags) ==
    [NoCall EXCEPT !.kind = kind, !.name = name, !.gen = h.gen, !.via = h.via,
                   !.data = data, !.frags = frags]

\* the invocation raised e
Raised(c, e) == [c EXCEPT !.outcome = "raised", !.err = e]

\* the invocation reached `async with session.post(...)`: the request r is issued
Requested(c, r) == [c EXCEPT !.posts = <<r>>]

\* a handler from its start to its first suspension: the conversion of its
\* inputs raised, or _post read the configuration, built the request and issued it
Started(c, p, cfg, endpoint) ==
    IF ~p.ok THEN Raised(c, RaisedErr(p)) ELSE Requested(c, PostRequest(cfg, endpoint, p.v))

\* the handler registered under `name`, started with `data`
RunService(name, data, frags) ==
    Started(Invocation("service", name, services[name], data, frags),
            HandlerPayload(services[name], data), CfgOf(services[name].via),
            services[name].ep)

\* the intent handler registered under `type`, started with `slots`
RunIntent(type, slots, frags) ==
    Started(Invocation("intent", type, intents[type], slots, frags),
            IntentPayload(type, slots), CfgOf(intents[type].via), IntentEndpoint(type))

\* the invocation has returned or raised
Finished(c) == c.outcome # ""

\* suspended in `async with session.post(...)`: no response yet
AwaitsResponse(c) == ~Finished(c) /\ c.resp.status = 0

\* suspended in `await resp.json(content_type=None)`: the status is known
AwaitsBody(c) == ~Finished(c) /\ c.resp.status # 0

\* a service handler after `await _post(...)`: the data is discarded
ServiceEnds(c, r) ==
    IF r.raised THEN Raised(c, r.err) ELSE [c EXCEPT !.outcome = "returned", !.ret = r.data]

\* an intent handler after its reply a is built from the data
IntentReplied(c, data, a) ==
    IF ~a.ok
    THEN [Raised(c, RaisedErr(a)) EXCEPT !.ret = data]
    ELSE [c EXCEPT !.outcome = "returned", !.ret = data, !.reply = a.v]

\* an intent handler after `data = await self._post(...)`; the payload it
\* formats is the one it posted
IntentEnds(c, r) ==
    IF r.raised THEN Raised(c, r.err)
    ELSE IntentReplied(c, r.data, IntentReply(c.name, c.posts[1].json, r.data))

\* the invocation c, resumed with its whole response, runs to its end
Resumed(c) ==
    IF c.kind = "service" THEN ServiceEnds(c, PostResult(c.resp))
    ELSE IntentEnds(c, PostResult(c.resp))

\* ------------------------------------------------------------- the inputs
URL_HTTP_H == <<"h", "t", "t", "p", ":", "/", "/", "h">>
URL_HTTPS_H == <<"h", "t", "t", "p", "s", ":", "/", "/", "h">>
URL_HTTPS_PADDED == <<"\f", "h", "t", "t", "p", "s", ":", "/", "/", "h", "/", " ">>
URL_FTP == <<"f", "t", "p", ":", "/", "/", "h">>

\* base_url values typed into the forms or given by YAML
BaseUrlInputs == {URL_HTTP_H, URL_HTTPS_PADDED, URL_FTP, <<>>}
\* api_key values typed into the forms
ApiKeyInputs == {<<>>, <<" ", "k">>}

UserInputs == {Input(b, k) : b \in BaseUrlInputs, k \in ApiKeyInputs}

\* what the user step is called with: nothing yet, or the submitted form
FormInputs == UserInputs \cup {NoInput}

\* the environment of a legacy process
EnvChoices ==
    {[base_url |-> PNone, api_key |-> PNone],
     [base_url |-> PStr(URL_FTP), api_key |-> PStr(<<"k">>)]}

NoEnv == [base_url |-> PNone, api_key |-> PNone]

OkResponse == Response(200, Body(TRUE, PInt(5), ""))

\* well-formed call data for each kind of handler
PlainData(kind) ==
    CASE kind \in {"binary", "intpair"} -> ("a" :> PInt(2)) @@ ("b" :> PInt(3))
      [] kind = "power" -> ("base" :> PInt(2)) @@ ("exponent" :> PInt(3))
      [] kind = "intn" -> ("n" :> PInt(7))
      [] kind = "window" -> ("values" :> PList(<<PInt(1), PInt(2)>>)) @@ ("window" :> PInt(2))
      [] OTHER -> ("values" :> PList(<<PInt(1), PInt(2)>>))

\* well-formed slots for each intent
PlainSlots(type) ==
    CASE type \in {"MathAdd", "MathGcd", "MathLcm"} -> ("a" :> PInt(2)) @@ ("b" :> PInt(3))
      [] type \in {"MathFibonacci", "MathIsPrime", "MathPrimeFactors"} -> ("n" :> PInt(7))
      [] OTHER -> ("values" :> PList(<<PInt(1), PInt(2)>>))

PlainResponse(type) ==
    IF type \in {"MathFibonacci", "MathPrimeFactors"}
    THEN Response(200, Body(TRUE, PList(<<PInt(2), PInt(3)>>), ""))
    ELSE OkResponse

\* ----------------------------------------------------------------- flows
\* a flow keeps the type, reason and errors of its last result, whether an
\* entry existed when that step ran, and whether an earlier step showed its form
NoFlow == [type |-> "none", reason |-> "", errors |-> "", sawEntry |-> FALSE,
           opened |-> FALSE]

NoServices == [n \in ServiceNames |-> NoHandler]
NoIntents == [t \in IntentTypeSet |-> NoIntent]

InitRegistry ==
    /\ flows = [f \in FlowIds |-> NoFlow]
    /\ entryState = "not_loaded"
    /\ listener = FALSE
    /\ reloads = 0
    /\ setupCount = 0
    /\ services = NoServices
    /\ intents = NoIntents
    /\ lastSetup = "none"
    /\ pending = EmptyBag
    /\ lastCall = NoCall

\* a host on which the integration is installed and not yet configured
Init ==
    /\ profile = "entry"
    /\ hostHasLogger = FALSE
    /\ env = NoEnv
    /\ entries = <<>>
    /\ InitRegistry

\* the entry data the config flow creates from the inputs
CreatedData ==
    {async_step_user(<<>>, i).data :
        i \in {x \in UserInputs : async_step_user(<<>>, x).type = "create_entry"}}

\* a host of either profile before its first setup: the config flow has
\* created the entry (entry profile), or the environment is set (legacy)
InitConfigured ==
    /\ profile \in {"entry", "legacy"}
    /\ hostHasLogger \in BOOLEAN
    /\ env \in IF profile = "legacy" THEN EnvChoices ELSE {NoEnv}
    /\ entries \in IF profile = "entry" THEN {<<NewEntry(d)>> : d \in CreatedData} ELSE {<<>>}
    /\ InitRegistry

\* the flow manager runs one step of flow f and, on create_entry, adds the entry
FlowStep(f, result) ==
    /\ flows' = [flows EXCEPT ![f] = [type |-> result.type, reason |-> result.reason,
                                      errors |-> result.errors, sawEntry |-> entries # <<>>,
                                      opened |-> flows[f].type = "form"]]
    /\ entries' = IF result.type = "create_entry"
                  THEN Append(entries, NewEntry(result.data))
                  ELSE entries
    /\ lastCall' = NoCall
    /\ UNCHANGED <<cfgVars, entryState, listener, reloads, setupCount, services, intents,
                   lastSetup, pending>>

\* a user opens the flow (no input yet) or submits its form
FlowStepUser(f, user_input) ==
    /\ profile = "entry"
    /\ \/ flows[f].type = "none" /\ user_input = NoInput
       \/ flows[f].type = "form" /\ user_input # NoInput
    /\ FlowStep(f, async_step_user(entries, user_input))

\* the host starts a flow from the YAML configuration
FlowStepImport(f, user_input) ==
    /\ profile = "entry"
    /\ flows[f].type = "none"
    /\ user_input # NoInput
    /\ FlowStep(f, async_step_import(entries, user_input))

\* the options form is saved; the host stores the options and, when they
\* changed, calls the entry's update listeners: _update_listener schedules a reload
OptionsSave(user_input) ==
    /\ profile = "entry"
    /\ entries # <<>>
    /\ setupCount + reloads < MaxSetups
    /\ LET opts == async_step_init(user_input)
       IN /\ entries' = [entries EXCEPT ![1].options = opts]
          /\ reloads' = IF listener /\ opts # Entry.options THEN reloads + 1 ELSE reloads
    /\ lastCall' = NoCall
    /\ UNCHANGED <<cfgVars, flows, entryState, listener, setupCount, services, intents,
                   lastSetup, pending>>

\* an unload that removes every service of the domain
UnloadedServicesRemoved(svcs) == [n \in ServiceNames |-> NoHandler]

\* the registry after async_unload_entry: it removes no service
UnloadedServices(svcs) == svcs

\* first half of hass.config_entries.async_reload: async_unload_entry (returns
\* True), then the entry's on-unload callbacks, which remove the update listener
ReloadUnload ==
    /\ reloads > 0
    /\ entryState \in {"loaded", "setup_error"}
    /\ reloads' = reloads - 1
    /\ entryState' = "not_loaded"
    /\ listener' = FALSE
    /\ services' = UnloadedServices(services)
    /\ lastCall' = NoCall
    /\ UNCHANGED <<cfgVars, entries, flows, setupCount, intents, lastSetup, pending>>

\* async_setup_entry, run by the host for a new entry and as the second half of a reload
SetupEntry(failAt) ==
    /\ profile = "entry"
    /\ entries # <<>>
    /\ entryState = "not_loaded"
    /\ setupCount < MaxSetups
    /\ setupCount' = setupCount + 1
    /\ services' = SetupEntryServices(services, setupCount + 1)
    /\ intents' = async_register_intents(intents, setupCount + 1, "entry", failAt)
    /\ lastSetup' = SetupOutcome(failAt, hostHasLogger)
    /\ listener' = (SetupOutcome(failAt, hostHasLogger) = "ok")
    /\ entryState' = IF SetupOutcome(failAt, hostHasLogger) = "ok" THEN "loaded" ELSE "setup_error"
    /\ lastCall' = NoCall
    /\ UNCHANGED <<cfgVars, entries, flows, reloads, pending>>

\* `from .intent import async_register_intents` in custom_components/__init__.py
\* names the module custom_components/intent.py, which the repository does not
\* have (intent.py is in math_tools/): the import raises, no intent handler
\* is registered
LegacyFailAt == 0

\* async_setup of custom_components/__init__.py
LegacySetup ==
    /\ profile = "legacy"
    /\ setupCount < MaxSetups
    /\ setupCount' = setupCount + 1
    /\ services' = LegacySetupServices(services, setupCount + 1)
    /\ intents' = async_register_intents(intents, setupCount + 1, "legacy", LegacyFailAt)
    /\ lastSetup' = SetupOutcome(LegacyFailAt, hostHasLogger)
    /\ lastCall' = NoCall
    /\ UNCHANGED <<cfgVars, entries, flows, entryState, listener, reloads, pending>>

\* the host starts a handler, which runs to its first suspension: an
\* invocation that raised before its request is finished, any other is in
\* flight with its request issued
Dispatch(c) ==
    /\ BagCardinality(pending) < MaxInFlight
    /\ pending' = IF Finished(c) THEN pending ELSE pending (+) SetToBag({c})
    /\ lastCall' = IF Finished(c) THEN c ELSE NoCall
    /\ UNCHANGED <<cfgVars, entries, flows, entryState, listener, reloads, setupCount,
                   services, intents, lastSetup>>

\* the host dispatches a service call to the registered handler
ServiceCall(name, data, frags) ==
    /\ _svc_exists(services, name)
    /\ Dispatch(RunService(name, data, frags))

\* the host dispatches an intent to the registered handler
IntentCall(type, slots, frags) ==
    /\ intents[type] # NoIntent
    /\ Dispatch(RunIntent(type, slots, frags))

\* the status line of the upstream's response arrives for the invocation c in
\* flight: `async with session.post(...)` is entered, and c suspends again
\* in `await resp.json(content_type=None)`
ResponseArrives(c, status) ==
    /\ BagIn(c, pending)
    /\ AwaitsResponse(c)
    /\ pending' = (pending (-) SetToBag({c})) (+) SetToBag({[c EXCEPT !.resp.status = status]})
    /\ lastCall' = NoCall
    /\ UNCHANGED <<cfgVars, entries, flows, entryState, listener, reloads, setupCount,
                   services, intents, lastSetup>>

\* the body of the response arrives: `await resp.json(content_type=None)`
\* returns or raises, and the handler runs to its end
BodyArrives(c, body) ==
    /\ BagIn(c, pending)
    /\ AwaitsBody(c)
    /\ pending' = pending (-) SetToBag({c})
    /\ lastCall' = Resumed([c EXCEPT !.resp.data = body])
    /\ UNCHANGED <<cfgVars, entries, flows, entryState, listener, reloads, setupCount,
                   services, intents, lastSetup>>

\* the host runs a task that is none of the integration's: no invocation
\* finishes in it
HostStep ==
    /\ lastCall # NoCall
    /\ lastCall' = NoCall
    /\ UNCHANGED <<cfgVars, entries, flows, entryState, listener, reloads, setupCount,
                   services, intents, lastSetup, pending>>

\* where the intent registration may raise: at the import, after the first
\* handler, or nowhere
FailPoints == {0, 1, Len(IntentTypes)}

\* the services and intents the host invokes while the configuration changes
LifecycleServices == {"add", "gcd"}
LifecycleIntents == {"MathAdd"}

PlainServiceCall ==
    \E name \in LifecycleServices :
        ServiceCall(name, PlainData(services[name].kind), <<>>)

\* the well-formed dispatch of each intent the host invokes
PlainIntentInputs ==
    {[type |-> t, slots |-> PlainSlots(t)] : t \in LifecycleIntents}

PlainIntentCall ==
    \E c \in PlainIntentInputs : IntentCall(c.type, c.slots, <<>>)

\* the host invokes one service while the configuration surface is used
ConfiguredCall == ServiceCall("add", PlainData(services["add"].kind), <<>>)

\* the invocation c was started with well-formed data
IsPlain(c) ==
    /\ c.frags = <<>>
    /\ c.data = IF c.kind = "service" THEN PlainData(services[c.name].kind)
                ELSE PlainSlots(c.name)

\* the response a well-behaved upstream gives to the invocation c
PlainResponseTo(c) == IF c.kind = "intent" THEN PlainResponse(c.name) ELSE OkResponse

\* a well-behaved upstream answers a well-formed invocation in flight, in any order
PlainAnswer ==
    \E c \in BagToSet(pending) :
        /\ IsPlain(c)
        /\ \/ ResponseArrives(c, PlainResponseTo(c).status)
           \/ BodyArrives(c, PlainResponseTo(c).data)

\* configuration: the config flows, the options form, setup, reload, calls
Next ==
    \/ \E f \in FlowIds, i \in FormInputs : FlowStepUser(f, i)
    \/ \E f \in FlowIds, i \in UserInputs : FlowStepImport(f, i)
    \/ \E i \in UserInputs : OptionsSave(i)
    \/ ReloadUnload
    \/ SetupEntry(Len(IntentTypes))
    \/ ConfiguredCall
    \/ PlainAnswer

Spec == Init /\ [][Next]_vars

\* lifecycle: setups of both profiles, intent registration failures, options
\* changes, reloads, calls
NextReload ==
    \/ \E i \in UserInputs : OptionsSave(i)
    \/ ReloadUnload
    \/ \E k \in FailPoints : SetupEntry(k)
    \/ LegacySetup
    \/ PlainServiceCall
    \/ PlainIntentCall
    \/ PlainAnswer

SpecReload == InitConfigured /\ [][NextReload]_vars

\* ---------------------------------------------------- the inputs of calls
\* how many intent handlers the first setup of a profile registers
FirstSetupIntents(p) == IF p = "entry" THEN Len(IntentTypes) ELSE LegacyFailAt

\* the state after the first setup of a configured host without a logger:
\* async_setup_entry returned True; the legacy async_setup registered its
\* services, failed to import the intents and raised
InitLoaded ==
    /\ profile \in {"entry", "legacy"}
    /\ hostHasLogger = FALSE
    /\ env = NoEnv
    /\ entries = IF profile = "entry"
                 THEN <<NewEntry([base_url |-> PStr(URL_HTTP_H), api_key |-> PNone])>>
                 ELSE <<>>
    /\ flows = [f \in FlowIds |-> NoFlow]
    /\ entryState = IF profile = "entry" THEN "loaded" ELSE "not_loaded"
    /\ listener = (profile = "entry")
    /\ reloads = 0
    /\ setupCount = 1
    /\ services = IF profile = "entry"
                  THEN SetupEntryServices(NoServices, 1)
                  ELSE LegacySetupServices(NoServices, 1)
    /\ intents = async_register_intents(NoIntents, 1, profile, FirstSetupIntents(profile))
    /\ lastSetup = SetupOutcome(FirstSetupIntents(profile), hostHasLogger)
    /\ pending = EmptyBag
    /\ lastCall = NoCall

\* values a caller may give for a numeric field
ScalarInputs ==
    {PInt(2), PFloat(25, -1), Special("nan"), Special("inf"), PStr(<<"\f", "3">>),
     PStr(<<"1", "e", "3">>), PStr(<<"x">>), PNone}

\* call data over the fields f1, f2: each given or missing
PairData(f1, f2) ==
    {(f1 :> x) @@ (f2 :> y) : x \in ScalarInputs, y \in ScalarInputs}
        \cup {(f1 :> x) : x \in ScalarInputs} \cup {(f2 :> y) : y \in ScalarInputs}
        \cup {EmptyData}

\* values a caller may give for `values`, other than a generated string
ValuesInputs ==
    {PNone, PInt(5), PStr(<<>>), PStr(<<"1", " ", "2">>),
     PList(<<>>), PList(<<PInt(1), PStr(<<"2">>), PFloat(35, -1)>>), PList(<<PStr(<<"x">>)>>),
     PTuple(<<PInt(1), PInt(2)>>)}

ValuesData == {("values" :> v) : v \in ValuesInputs} \cup {EmptyData}

\* d with each of the fields of `more` given or missing
WithOptional(ds, f, xs) == ds \cup {d @@ (f :> x) : d \in ds, x \in xs}

\* the call data the host may pass to a handler of each kind
CallData(kind) ==
    CASE kind \in {"binary", "intpair"} -> PairData("a", "b")
      [] kind = "power" -> PairData("base", "exponent")
      [] kind = "intn" -> {("n" :> x) : x \in ScalarInputs} \cup {EmptyData}
      [] kind = "values" -> WithOptional(ValuesData, "reverse", {PBool(TRUE)})
      [] kind = "std" -> WithOptional(ValuesData, "sample", {PBool(TRUE), PInt(0)})
      [] OTHER -> WithOptional(ValuesData, "window", {PInt(2), PStr(<<"w">>)})

\* the slots the host may pass to an intent handler
SlotData(type) ==
    CASE type \in {"MathAdd", "MathGcd", "MathLcm"} -> PairData("a", "b")
      [] type \in {"MathFibonacci", "MathIsPrime", "MathPrimeFactors"} ->
            {("n" :> x) : x \in ScalarInputs} \cup {EmptyData}
      [] type = "MathStd" -> WithOptional(ValuesData, "sample", {PBool(TRUE), PInt(0)})
      [] OTHER -> ValuesData

\* HTTP statuses of the upstream
Statuses == {200, 399, 400, 500}

\* the `result` the upstream returns for an endpoint (a number, a boolean, a
\* sequence of numbers, or a string in place of the sequence), short sequences only
ResultsOf(ep) ==
    CASE ep = EP_is_prime -> {PBool(TRUE), PBool(FALSE)}
      [] ep \in {EP_prime_factors, EP_fibonacci} ->
            {PList(<<>>), PList(<<PInt(2), PInt(3)>>), PStr(<<"a", "b">>)}
      [] ep \in {EP_gcd, EP_lcm} -> {PInt(6)}
      [] OTHER -> {PFloat(55, -1)}

\* the response bodies of an endpoint: an object with a result, an object
\* without one, or text that is no JSON
BodiesOf(ep) ==
    {Body(TRUE, r, "") : r \in ResultsOf(ep)}
        \cup {Body(FALSE, PNone, "detail"), RawBody("Bad Gateway")}

\* a fragment of a comma-separated string: its characters and the number it
\* denotes (PNone for an empty or blank fragment)
Frag(chars, num) == [chars |-> chars, num |-> num]

FragChoices ==
    {Frag(<<"1">>, PFloat(1, 0)), Frag(<<"\f", "2", ".", "5">>, PFloat(25, -1)),
     Frag(<<"-", "3", "e", "1", " ">>, PFloat(-30, 0)), Frag(<<>>, PNone),
     Frag(<<" ">>, PNone)}

RECURSIVE SeqsUpTo(_, _)
SeqsUpTo(S, n) ==
    IF n = 0 THEN {<<>>}
    ELSE LET R == SeqsUpTo(S, n - 1)
         IN R \cup {Append(r, x) : r \in {q \in R : Len(q) = n - 1}, x \in S}

FragSeqs == SeqsUpTo(FragChoices, MaxFrags) \ {<<>>}

\* the string the fragments spell: their characters, joined by commas
FragString(frags) == Join([i \in 1..Len(frags) |-> frags[i].chars], <<",">>)

\* the numbers the fragments denote, in order
FragNumbers(frags) ==
    LET kept == SelectSeq(frags, LAMBDA f : f.num # PNone)
    IN [i \in 1..Len(kept) |-> kept[i].num]

\* the services and intents that take `values`
ListServices == {"mean", "median", "sort", "std", "moving_average", "rolling_min", "rolling_max"}
ListIntents == {"MathMean", "MathMedian", "MathStd"}

\* call data whose `values` is the string of the fragments
StringData(frags) == ("values" :> PStr(FragString(frags))) @@ ("window" :> PInt(2))

\* the inputs of calls are taken one call at a time, next to the well-formed
\* calls in flight: the next is given when the call before it has finished
\* and its outcome was taken
NoneInFlight == lastCall = NoCall /\ \A c \in BagToSet(pending) : IsPlain(c)

\* the host calls a service with data of the handler's shape
CallService ==
    /\ NoneInFlight
    /\ \E name \in ServiceNames :
          \E data \in CallData(services[name].kind) : ServiceCall(name, data, <<>>)

\* the dispatches of each intent: slots of the intent's shape
IntentInputs ==
    UNION {{[type |-> t, slots |-> s] : s \in SlotData(t)} : t \in IntentTypeSet}

\* the host dispatches an intent with slots of the intent's shape
CallIntent ==
    /\ NoneInFlight
    /\ \E c \in IntentInputs : IntentCall(c.type, c.slots, <<>>)

\* the generated strings, each with the call data that carries it
StringInputs == {[frags |-> f, data |-> StringData(f)] : f \in FragSeqs}

\* a list-shaped service is called with `values` given as a comma-separated string
CallServiceWithString ==
    /\ NoneInFlight
    /\ \E name \in ListServices, c \in StringInputs : ServiceCall(name, c.data, c.frags)

\* a list-shaped intent is dispatched with `values` given as a comma-separated string
CallIntentWithString ==
    /\ NoneInFlight
    /\ \E type \in ListIntents, c \in StringInputs : IntentCall(type, c.data, c.frags)

\* the endpoint the invocation c posted to
EndpointOf(c) == IF c.kind = "service" THEN services[c.name].ep ELSE IntentEndpoint(c.name)

\* the upstream answers an invocation in flight with any status and any body
\* of the endpoint
AnyAnswer ==
    \E c \in BagToSet(pending) :
        /\ ~IsPlain(c)
        /\ \/ \E st \in Statuses : ResponseArrives(c, st)
           \/ \E b \in BodiesOf(EndpointOf(c)) : BodyArrives(c, b)

NextCall ==
    \/ CallService
    \/ CallIntent
    \/ CallServiceWithString
    \/ CallIntentWithString
    \/ AnyAnswer
    \/ ConfiguredCall
    \/ PlainAnswer
    \/ HostStep

SpecCall == InitLoaded /\ [][NextCall]_vars

\* ------------------------------------------------- the replies of intents
\* result sequences of the upstream: len terms, from a in steps of d
Terms(len, a, d) == [i \in 1..len |-> PInt(a + (i - 1) * d)]

ResultSeqs == {Terms(len, a, d) : len \in 0..MaxSeqLen, a \in {0, 1}, d \in {0, 1, 7}}

\* results that are no sequence of numbers: a string, null, a number
OtherResults == {PStr(<<"a", "b", "c">>), PStr(<<>>), PNone, PInt(5)}

SeqBodies ==
    {Body(TRUE, PList(q), "") : q \in ResultSeqs}
        \cup {Body(TRUE, r, "") : r \in OtherResults} \cup {Body(FALSE, PNone, "")}

\* the slots of a dispatch with the slot n
SeqInputs == {("n" :> PInt(n)) : n \in {1, 40}}

\* the Fibonacci intent is dispatched
FibonacciCall == \E s \in SeqInputs : IntentCall("MathFibonacci", s, <<>>)

\* the prime-factors intent is dispatched
PrimeFactorsCall == \E s \in SeqInputs : IntentCall("MathPrimeFactors", s, <<>>)

\* the upstream answers 200 with one of the bodies
SeqAnswer ==
    \E c \in BagToSet(pending) :
        \/ ResponseArrives(c, OkResponse.status)
        \/ \E b \in SeqBodies : BodyArrives(c, b)

NextIntent == FibonacciCall \/ PrimeFactorsCall \/ SeqAnswer

SpecIntent == InitLoaded /\ [][NextIntent]_vars

\* ================================================================ claims
\* the invocations in flight, and the one that finished in the latest step
Invocations == BagToSet(pending) \cup {lastCall}

\* ---------------------------------------------------------------------- C1
\* C1 (as claimed): registering a service under a name that is already
\* registered is a no-op, so after any sequence of setups each registered
\* name still has the handler of the first setup, and one invocation of a
\* service issues exactly one HTTP request.
C1_FirstHandlerKept ==
    /\ \A n \in ServiceNames : Registered(services[n]) => services[n].gen = 1
    /\ \A c \in Invocations : c.kind = "service" => Len(c.posts) = 1

\* ---------------------------------------------------------------------- C2
\* C2 (as claimed): no POST is ever issued to a URL built from a base URL
\* that starts with neither http:// nor https://.
C2_PostsOnlyToHttp ==
    \A c \in Invocations :
        \A i \in 1..Len(c.posts) :
            StartsWith(c.posts[i].url, HTTP) \/ StartsWith(c.posts[i].url, HTTPS)

\* ---------------------------------------------------------------------- C3
\* C3 (as claimed): an invocation that got a response issued exactly one
\* POST; with a status >= 400 it raised an error carrying that status and the
\* response body; with a status < 400 the body was returned and nothing raised.
C3_StatusDecidesOutcome ==
    (Finished(lastCall) /\ lastCall.resp.status # 0) =>
        /\ Len(lastCall.posts) = 1
        /\ IF lastCall.resp.status >= 400
           THEN /\ lastCall.outcome = "raised"
                /\ lastCall.err.type = "RuntimeError"
                /\ lastCall.err.status = lastCall.resp.status
                /\ lastCall.err.data = lastCall.resp.data
           ELSE /\ lastCall.outcome = "returned"
                /\ lastCall.err = NoErr
                /\ lastCall.ret = lastCall.resp.data

\* ---------------------------------------------------------------------- C4
\* C4 (as claimed): after a reload completes, the registered handlers are the
\* ones created by the new setup, not ones left over from the previous setup.
C4_HandlersOfNewSetup ==
    (profile = "entry" /\ entryState = "loaded" /\ setupCount >= 2) =>
        \A n \in ServiceNames : services[n].gen = setupCount

\* C4 (amended): an options change made while the entry is loaded fires the
\* update listener, which schedules a reload; the reload unloads the entry
\* (the listener is removed, no service handler is) and sets it up again; the
\* re-setup leaves every service handler already registered in place.
C4_ReloadKeepsServiceHandlers ==
    [][profile = "entry" =>
        /\ (entries' # entries /\ listener) => reloads' = reloads + 1
        /\ reloads' < reloads =>
              entryState' = "not_loaded" /\ ~listener' /\ services' = services
        /\ setupCount' > setupCount =>
              /\ entryState = "not_loaded"
              /\ \A n \in ServiceNames : Registered(services'[n])
              /\ \A n \in ServiceNames : Registered(services[n]) => services'[n] = services[n]
      ]_vars

\* a reload that followed an options change has completed
C4_Witness ==
    /\ profile = "entry"
    /\ entryState = "loaded"
    /\ setupCount = 2
    /\ Entry.options # NoData
    /\ \A n \in ServiceNames : services[n].gen = 1
    /\ \A t \in IntentTypeSet : intents[t].gen = 2

\* ---------------------------------------------------------------------- C5
\* C5: at most one config entry is ever created, and every flow step taken
\* while an entry exists aborts with single_instance_allowed.
C5_SingleInstance ==
    /\ Len(entries) <= 1
    /\ Cardinality({f \in FlowIds : flows[f].type = "create_entry"}) = Len(entries)
    /\ \A f \in FlowIds :
          (flows[f].type # "none" /\ flows[f].sawEntry) =>
              flows[f].type = "abort" /\ flows[f].reason = "single_instance_allowed"

\* two forms were open at once: one flow created the entry, the other then aborted
C5_Witness ==
    \E f, g \in FlowIds :
        /\ flows[f].type = "create_entry" /\ flows[f].opened
        /\ flows[g].type = "abort" /\ flows[g].opened /\ flows[g].sawEntry

\* ---------------------------------------------------------------------- C6
\* the list-shaped operations C6 names
C6_Operations == {"mean", "median", "sort", "std", "MathMean", "MathMedian", "MathStd"}

\* `values` absent, None, of a type other than str and list, or an empty string
C6_NoValues(c) ==
    /\ c.name \in C6_Operations
    /\ "window" \notin DOMAIN c.data
    /\ Get(c.data, "values") \in {PNone, PInt(5), PTuple(<<PInt(1), PInt(2)>>), PStr(<<>>)}

\* C6 (as claimed): for every list-shaped operation, when `values` is absent,
\* None, of a type other than str and list, or an empty string, the request
\* is posted with values = [] and the call does not fail.
C6_LenientDefault ==
    \A c \in Invocations :
        C6_NoValues(c) =>
            /\ Len(c.posts) = 1
            /\ c.posts[1].json["values"] = PList(<<>>)

\* ---------------------------------------------------------------------- C7
\* what the handler of the call c builds when `values` is given as the list xs
C7_ValuesFromList(c, xs) ==
    IF c.kind = "service"
    THEN HandlerPayload(services[c.name], [c.data EXCEPT !["values"] = PList(xs)])
    ELSE IntentPayload(c.name, [c.data EXCEPT !["values"] = PList(xs)])

\* the call c posted the numbers of its string, as the list of them would be
C7_SameAsList(c) ==
    /\ Len(c.posts) = 1
    /\ C7_ValuesFromList(c, FragNumbers(c.frags)).ok
    /\ c.posts[1].json["values"] = C7_ValuesFromList(c, FragNumbers(c.frags)).v["values"]
    /\ Len(c.posts[1].json["values"].l) = Len(FragNumbers(c.frags))
    /\ \A i \in 1..Len(FragNumbers(c.frags)) :
          c.posts[1].json["values"].l[i] = FragNumbers(c.frags)[i]

\* C7: a comma-separated string of numbers, with whitespace around the
\* fragments and with empty fragments, normalizes without an error to the
\* same sequence, in the same order, as the list of those numbers.
C7_StringAsList ==
    \A c \in Invocations : c.frags # <<>> => C7_SameAsList(c)

\* a string with a number padded by a form feed, an empty fragment and a
\* number with an exponent: "\f2.5,,-3e1 " was posted as [2.5, -30.0]
C7_Witness ==
    /\ Len(lastCall.frags) = 3
    /\ lastCall.frags[1].chars = <<"\f", "2", ".", "5">>
    /\ lastCall.frags[2].num = PNone
    /\ lastCall.frags[3].chars = <<"-", "3", "e", "1", " ">>
    /\ lastCall.name = "std"
    /\ lastCall.outcome = "returned"
    /\ Len(lastCall.posts) = 1
    /\ lastCall.posts[1].json["values"] = PList(<<PFloat(25, -1), PFloat(-30, 0)>>)

\* ---------------------------------------------------------------------- C8
\* C8 (as claimed): no exception escapes setup, whether or not the intent
\* registration raises; setup returns success and the services are registered.
C8_SetupSucceeds ==
    lastSetup # "none" =>
        /\ lastSetup = "ok"
        /\ \A n \in ServiceNames : Registered(services[n])

\* ---------------------------------------------------------------------- C9
\* the text between a prefix and the final character of a sentence
Between(text, pre) == SubSeq(text, Len(pre) + 1, Len(text) - 1)

\* the items of a text that lists them separated by c
Items(text, c) == StrippedFragments(SplitOn(text, c))

AndMoreItem == <<"a", "n", "d", " ", "m", "o", "r", "e">>

\* the items without the "and more" that may end them
TermsOf(items) ==
    IF items # <<>> /\ items[Len(items)] = AndMoreItem
    THEN SubSeq(items, 1, Len(items) - 1)
    ELSE items

\* the upstream answered the last call 200 with a sequence of numbers, or
\* with an object without a result
GotSequence ==
    /\ Finished(lastCall)
    /\ lastCall.resp.status = 200
    /\ lastCall.resp.data.json
    /\ lastCall.resp.data.has => lastCall.resp.data.result.t = "list"

\* the result sequence the upstream returned to the last call
ReturnedSeq == IF lastCall.resp.data.has THEN lastCall.resp.data.result.l ELSE <<>>

SameTerms(items, seq, n) ==
    /\ Len(items) = n
    /\ \A i \in 1..n : items[i] = IntToStr(seq[i].n)

FibPrefix == Txt.fib_1 \o IntToStr(lastCall.posts[1].json["n"].n) \o Txt.fib_2
FibCardPrefix == Txt.n_eq \o IntToStr(lastCall.posts[1].json["n"].n) \o Txt.colon \o <<"[">>

FibSpoken(items, seq) ==
    /\ SameTerms(TermsOf(items), seq, Min(30, Len(seq)))
    /\ (items # <<>> /\ items[Len(items)] = AndMoreItem) <=> Len(seq) > 30

\* C9: the Fibonacci speech lists exactly the first min(30, len) terms in
\* order, with the "and more" indicator exactly when the sequence has more
\* than 30 terms; the card holds the full sequence.
C9_FibonacciSpeech ==
    (lastCall.name = "MathFibonacci" /\ GotSequence) =>
        /\ lastCall.outcome = "returned"
        /\ StartsWith(lastCall.reply.speech, FibPrefix)
        /\ lastCall.reply.speech[Len(lastCall.reply.speech)] = "."
        /\ FibSpoken(Items(Between(lastCall.reply.speech, FibPrefix), ","), ReturnedSeq)
        /\ StartsWith(lastCall.reply.card, FibCardPrefix)
        /\ lastCall.reply.card[Len(lastCall.reply.card)] = "]"
        /\ SameTerms(Items(Between(lastCall.reply.card, FibCardPrefix), ","), ReturnedSeq,
                     Len(ReturnedSeq))

\* a sequence of 31 terms was spoken
C9_Witness ==
    /\ lastCall.name = "MathFibonacci"
    /\ GotSequence
    /\ lastCall.outcome = "returned"
    /\ Len(ReturnedSeq) = 31
    /\ Len(Items(Between(lastCall.reply.speech, FibPrefix), ",")) = 31

\* --------------------------------------------------------------------- C10
FactorsPrefix == Txt.pf_1 \o IntToStr(lastCall.posts[1].json["n"].n) \o Txt.pf_2

FactorsSpoken(spoken, fac) ==
    /\ spoken = <<"n", "o", "n", "e">> <=> fac = <<>>
    /\ fac # <<>> => SameTerms(Items(spoken, "×"), fac, Len(fac))

\* C10: the prime-factors speech says "none" exactly when the factor
\* sequence is empty or the result is missing; otherwise it holds every
\* factor, in order, joined by the multiplication separator.
C10_PrimeFactorsSpeech ==
    (lastCall.name = "MathPrimeFactors" /\ GotSequence) =>
        /\ lastCall.outcome = "returned"
        /\ StartsWith(lastCall.reply.speech, FactorsPrefix)
        /\ lastCall.reply.speech[Len(lastCall.reply.speech)] = "."
        /\ FactorsSpoken(Between(lastCall.reply.speech, FactorsPrefix), ReturnedSeq)

\* a single factor was spoken
C10_Witness ==
    /\ lastCall.name = "MathPrimeFactors"
    /\ GotSequence
    /\ lastCall.outcome = "returned"
    /\ Len(ReturnedSeq) = 1
    /\ Between(lastCall.reply.speech, FactorsPrefix) = IntToStr(ReturnedSeq[1].n)

\* --------------------------------------------------------------------- C11
\* the characters of each service name
NameChars ==
    [add |-> <<"a", "d", "d">>,
     subtract |-> <<"s", "u", "b", "t", "r", "a", "c", "t">>,
     multiply |-> <<"m", "u", "l", "t", "i", "p", "l", "y">>,
     divide |-> <<"d", "i", "v", "i", "d", "e">>,
     power |-> <<"p", "o", "w", "e", "r">>,
     mean |-> <<"m", "e", "a", "n">>,
     median |-> <<"m", "e", "d", "i", "a", "n">>,
     std |-> <<"s", "t", "d">>,
     gcd |-> <<"g", "c", "d">>,
     lcm |-> <<"l", "c", "m">>,
     is_prime |-> <<"i", "s", "_", "p", "r", "i", "m", "e">>,
     prime_factors |-> <<"p", "r", "i", "m", "e", "_", "f", "a", "c", "t", "o", "r", "s">>,
     fibonacci |-> <<"f", "i", "b", "o", "n", "a", "c", "c", "i">>,
     sort |-> <<"s", "o", "r", "t">>,
     moving_average |-> <<"m", "o", "v", "i", "n", "g", "_", "a", "v", "e", "r", "a", "g", "e">>,
     rolling_min |-> <<"r", "o", "l", "l", "i", "n", "g", "_", "m", "i", "n">>,
     rolling_max |-> <<"r", "o", "l", "l", "i", "n", "g", "_", "m", "a", "x">>]

\* the services of the /math group; the others belong to /algorithms
MathGroup == {"add", "subtract", "multiply", "divide", "power", "mean", "median", "std"}

\* the path paired with a service name: its group, then the name
PathOf(name) ==
    (IF name \in MathGroup THEN <<"/", "m", "a", "t", "h", "/">>
     ELSE <<"/", "a", "l", "g", "o", "r", "i", "t", "h", "m", "s", "/">>) \o NameChars[name]

\* C11: every registered handler holds the endpoint paired with its name, and
\* an invocation of service N that issues a request posts it to that
\* endpoint under the configured base URL, never to the endpoint of another
\* name of the same registration loop.
C11_OwnEndpoint ==
    /\ \A n \in ServiceNames : Registered(services[n]) => services[n].ep = PathOf(n)
    /\ \A c \in Invocations :
          (c.kind = "service" /\ c.posts # <<>>) =>
              /\ Len(c.posts) = 1
              /\ c.posts[1].url = CfgOf(c.via).base \o PathOf(c.name)

\* the first handler of the window loop of async_setup_entry has its request
\* in flight, posted to its own path
C11_Witness ==
    \E c \in BagToSet(pending) :
        /\ c.kind = "service"
        /\ c.via = "entry"
        /\ c.name = "moving_average"
        /\ Len(c.posts) = 1
        /\ c.posts[1].url = URL_HTTP_H \o PathOf("moving_average")

\* --------------------------------------------------------------------- C12
\* the fields a handler of each kind requires, and the number type it wants
RequiredFields(kind) ==
    CASE kind \in {"binary", "intpair"} -> {"a", "b"}
      [] kind = "power" -> {"base", "exponent"}
      [] kind = "intn" -> {"n"}
      [] kind = "window" -> {"window"}
      [] OTHER -> {}

NumberType(kind) == IF kind \in {"binary", "power"} THEN "float" ELSE "int"

\* the elements of `values` a handler of the kind converts to float
GivenElements(kind, v) ==
    IF kind \notin {"values", "std", "window"} THEN <<>>
    ELSE IF v.t = "str" THEN StrList(StrippedFragments(SplitComma(v.s)))
    ELSE IF v.t = "list" \/ (v.t = "tuple" /\ kind # "values") THEN v.l
    ELSE <<>>

\* a required field is missing from the data
SomeMissing(kind, data) == \E f \in RequiredFields(kind) : f \notin DOMAIN data

\* the values of the required fields and of `values` that do not convert
BadGiven(kind, data) ==
    {data[f] : f \in {g \in RequiredFields(kind) \cap DOMAIN data :
                         ~Convert(NumberType(kind), data[g]).ok}}
        \cup {GivenElements(kind, Get(data, "values"))[i] :
                 i \in {j \in 1..Len(GivenElements(kind, Get(data, "values"))) :
                           ~ToFloat(GivenElements(kind, Get(data, "values"))[j]).ok}}

\* the service call c has a required field missing or not coercible
BadCall(c) ==
    /\ c.kind = "service"
    /\ SomeMissing(services[c.name].kind, c.data) \/ BadGiven(services[c.name].kind, c.data) # {}

\* the call c failed before any request was issued
FailedBeforePost(c) ==
    /\ c.outcome = "raised"
    /\ c.posts = <<>>
    /\ c.err.type \in {"KeyError", "ValueError", "OverflowError", "TypeError"}

\* C12 (as claimed): a service call with a required field missing or not
\* coercible fails before any request is issued, and its error names the
\* missing field (KeyError) or the bad value (ValueError; OverflowError for
\* an infinity).
C12_NamesFieldOrValue ==
    \A c \in Invocations :
        BadCall(c) =>
            /\ FailedBeforePost(c)
            /\ c.err.type \in {"KeyError", "ValueError", "OverflowError"}

\* what the error of the failed call c tells: KeyError the name of a missing
\* required field, ValueError the text of a string that does not convert, or
\* that a float NaN has no integer, OverflowError that an infinity has none,
\* TypeError nothing beyond the type of a value that is no number and no str
ErrorTells(c) ==
    /\ c.err.type = "KeyError" =>
          \E f \in RequiredFields(services[c.name].kind) :
              f \notin DOMAIN c.data /\ c.err.what = <<f>>
    /\ c.err.type = "ValueError" =>
          \E x \in BadGiven(services[c.name].kind, c.data) :
              \/ x.t = "str" /\ c.err.what = x.s
              \/ x = Special("nan") /\ c.err.what = <<>>
    /\ c.err.type = "OverflowError" =>
          \E x \in BadGiven(services[c.name].kind, c.data) :
              x.sp \in {"inf", "-inf"} /\ c.err.what = <<>>
    /\ c.err.type = "TypeError" =>
          /\ c.err.what = <<>>
          /\ \/ \E x \in BadGiven(services[c.name].kind, c.data) : x.t # "str"
             \/ Get(c.data, "values").t \notin {"str", "list", "tuple"}

\* C12 (amended): a service call with a required field missing or not
\* coercible is never in flight: it fails in the step that dispatches it,
\* before any request is issued: zero POSTs, the error propagates, and
\* nothing but the record of the call changes, the invocations in flight
\* included. The error names the missing field or the string that does not
\* convert, or says that a float NaN or infinity has no integer; for a value
\* of another type (None, a list) it is a TypeError that names neither.
C12_FailsBeforePost ==
    [][/\ \A c \in BagToSet(pending') : ~BadCall(c)
       /\ (lastCall' # lastCall /\ BadCall(lastCall')) =>
             /\ FailedBeforePost(lastCall')
             /\ ErrorTells(lastCall')
             /\ UNCHANGED <<cfgVars, entries, flows, entryState, listener, reloads,
                            setupCount, services, intents, lastSetup, pending>>
      ]_vars

\* a window call with good values and a window that is no number
C12_Witness ==
    /\ lastCall.kind = "service"
    /\ lastCall.name = "moving_average"
    /\ Get(lastCall.data, "values") = PList(<<PInt(1), PStr(<<"2">>), PFloat(35, -1)>>)
    /\ Get(lastCall.data, "window") = PStr(<<"w">>)
    /\ lastCall.outcome = "raised"
    /\ lastCall.err.type = "ValueError"
    /\ lastCall.err.what = <<"w">>
    /\ lastCall.posts = <<>>

\* --------------------------------------------------------------------- C13
\* x is a string with at least one character
NonEmpty(x) == x.t = "str" /\ x.s # <<>>

\* the options value if non-empty, otherwise the entry-data value, otherwise
\* the default
EffectiveBase ==
    IF NonEmpty(Entry.options.base_url) THEN Entry.options.base_url.s
    ELSE IF NonEmpty(Entry.data.base_url) THEN Entry.data.base_url.s
    ELSE DEFAULT_BASE_URL

\* the options value if non-empty, otherwise the entry-data value
EffectiveKey ==
    IF NonEmpty(Entry.options.api_key) THEN Entry.options.api_key
    ELSE Entry.data.api_key

\* the request r goes to the effective base URL and carries the X-API-Key
\* header, with the effective key, exactly when that key is non-empty
UsesEffective(r) ==
    /\ Len(r.url) > Len(EffectiveBase)
    /\ SubSeq(r.url, 1, Len(EffectiveBase) + 1) = EffectiveBase \o <<"/">>
    /\ r.api_key = IF NonEmpty(EffectiveKey) THEN EffectiveKey ELSE PNone

\* the step issued the request of the invocation c
IssuedNow(c) == AwaitsResponse(c) /\ CopiesIn(c, pending') > CopiesIn(c, pending)

\* C13: every request of a handler of the config entry is built from the
\* entry as it is in the step that issues the request, whatever options were
\* saved since the setup and whatever is saved while the request is in
\* flight: base URL and API key are the options value if non-empty, otherwise
\* the entry-data value (the base URL otherwise the default), and the
\* X-API-Key header is sent, with the effective key, exactly when that key is
\* non-empty.
C13_ResolvedAtRequest ==
    [][\A c \in BagToSet(pending') :
          (IssuedNow(c) /\ c.via = "entry") =>
              /\ Len(c.posts) = 1
              /\ UsesEffective(c.posts[1])
              /\ c.kind = "service" => c.posts[1].url = EffectiveBase \o PathOf(c.name)
      ]_vars

\* two calls in flight together, one dispatched before and one after an
\* options save that changed the base URL and left the API key empty, the
\* reload the save scheduled still pending: the first request went to the
\* base URL of the entry data, the second to the new one, both with the key
\* of the entry data
C13_Witness ==
    /\ reloads > 0
    /\ entries # <<>>
    /\ Entry.data.base_url = PStr(URL_HTTP_H)
    /\ Entry.data.api_key = PStr(<<"k">>)
    /\ Entry.options.base_url = PStr(URL_HTTPS_H)
    /\ Entry.options.api_key = PNone
    /\ \E c, d \in BagToSet(pending) :
          /\ c.kind = "service" /\ c.via = "entry"
          /\ d.kind = "service" /\ d.via = "entry"
          /\ c.posts[1].url = URL_HTTP_H \o PathOf(c.name)
          /\ c.posts[1].api_key = PStr(<<"k">>)
          /\ d.posts[1].url = URL_HTTPS_H \o PathOf(d.name)
          /\ d.posts[1].api_key = PStr(<<"k">>)

====
